---- MODULE Spec2Model ----
(***************************************************************************)
(* Model of the gmgn-trending-service core: the freshness cache            *)
(* (app/services/cache.py), the cached trending fetch and the consistency  *)
(* aggregator (app/services/analysis_service.py), the deep analysis and    *)
(* the safety scorer (app/services/deep_analysis_service.py), the signal   *)
(* detectors (app/services/signals_service.py) and the narrative           *)
(* assessment (app/services/ai_assessment_service.py, app/models/ai.py).   *)
(*                                                                         *)
(* Python values are records [t, v]: t is the Python type, v an integer    *)
(* (a number's value, a bool's 0/1, a string's code with 0 the empty       *)
(* string, a list's length).  A dict is a function from key strings to     *)
(* values; dict.get(k) is Get(d, k).                                       *)
(***************************************************************************)
EXTENDS Integers, Sequences, FiniteSets, TLC

VARIABLES
    now,        \* the clock read by the cache timer and by time.time()
    cache,      \* cache.py _cache: [data, expires, order]
    task,       \* in-flight get_trending_data_with_cache calls
    upstream,   \* per cache key, the times at which get_trending_tokens was called
    lastStore,  \* per cache key, the latest set_cached: [by, at, truthy]
    agg,        \* one analyze_trending_tokens call
    lock,       \* cache.py _cache_lock: the thread holding it, 0 when free
    thr,        \* threads calling get_cached / set_cached / clear_cache
    hist,       \* what the latest completed cache operations established
    deep,       \* one deep_analyze_token call
    sc,         \* one calculate_safety_score evaluation
    answers,    \* the payloads the trending endpoint may answer in this run
    sig,        \* one call of a signal detector
    ai          \* one call of AiAssessmentService.assess_token

vars == <<now, cache, task, upstream, lastStore, agg, lock, thr, hist, deep, sc, answers, sig, ai>>

(***************************************************************************)
(* Python values                                                           *)
(***************************************************************************)
None == [t |-> "none", v |-> 0]
Num(n) == [t |-> "num", v |-> n]
Bool(b) == [t |-> "bool", v |-> IF b THEN 1 ELSE 0]
Str(code) == [t |-> "str", v |-> code]
NumStr(n) == [t |-> "numstr", v |-> n]
List(len) == [t |-> "list", v |-> len]

\* Python truthiness of a value
Truthy(x) ==
    CASE x.t = "none" -> FALSE
      [] x.t = "numstr" -> TRUE
      [] OTHER -> x.v # 0

IsNone(x) == x.t = "none"
IsFalse(x) == x.t = "bool" /\ x.v = 0
IsTrue(x) == x.t = "bool" /\ x.v = 1
\* Python ==  with the integer 1 (True == 1 holds in Python)
EqOne(x) == x.t \in {"num", "bool"} /\ x.v = 1

EmptyDict == [k \in {} |-> None]
Get(d, k) == IF k \in DOMAIN d THEN d[k] ELSE None

\* float(x or 0): ok is FALSE where Python raises ValueError / TypeError
FloatOr0(x) ==
    IF ~Truthy(x) THEN [ok |-> TRUE, v |-> 0]
    ELSE IF x.t \in {"num", "bool", "numstr"} THEN [ok |-> TRUE, v |-> x.v]
    ELSE [ok |-> FALSE, v |-> 0]

RECURSIVE SumSeq(_)
SumSeq(s) == IF s = <<>> THEN 0 ELSE Head(s) + SumSeq(Tail(s))

RECURSIVE Insert(_, _)
\* x put into the ascending sequence s
Insert(x, s) ==
    IF s = <<>> THEN <<x>>
    ELSE IF x <= Head(s) THEN <<x>> \o s
    ELSE <<Head(s)>> \o Insert(x, Tail(s))

RECURSIVE SortAsc(_)
SortAsc(s) == IF s = <<>> THEN <<>> ELSE Insert(Head(s), SortAsc(Tail(s)))

RECURSIVE Remove(_, _)
\* the sequence s without the entries equal to x
Remove(s, x) ==
    IF s = <<>> THEN <<>>
    ELSE IF Head(s) = x THEN Remove(Tail(s), x)
    ELSE <<Head(s)>> \o Remove(Tail(s), x)

Range(s) == {s[i] : i \in DOMAIN s}

(***************************************************************************)
(* cache.py: the TTLCache behind _cache_lock                               *)
(***************************************************************************)
\* TTLCache(maxsize, ttl): scaled from the source's 500 entries and 60 s so
\* that eviction and expiry are reached
maxsize == 2
ttl == 2

Chains == {"sol"}
Timeframes == <<"1m", "5m", "1h", "6h", "24h">>

\* f"trending_tokens:{chain}:{timeframe}"
CacheKey(timeframe, chain) == <<chain, timeframe>>

EmptyCache == [data |-> EmptyDict, expires |-> EmptyDict, order |-> <<>>]

Restrict(f, S) == [k \in S |-> f[k]]

\* TTLCache.expire(time): drop every entry whose time has come
Expire(c, time) ==
    LET live == {k \in DOMAIN c.expires : time < c.expires[k]}
        dead == DOMAIN c.expires \ live
    IN [data |-> Restrict(c.data, DOMAIN c.data \ dead),
        expires |-> Restrict(c.expires, live),
        order |-> SelectSeq(c.order, LAMBDA k : k \in live)]

\* TTLCache.__contains__
Contains(c, key, time) == key \in DOMAIN c.expires /\ time < c.expires[key]

\* TTLCache.__getitem__ of a key that is held: the value, and the key moved to
\* the recently-used end of the links
GetItem(c, key) ==
    [val |-> c.data[key],
     cache |-> [c EXCEPT !.order = Remove(c.order, key) \o <<key>>]]

\* TTLCache.popitem after expire: the least recently used entry goes
PopItem(c) ==
    LET key == Head(c.order)
    IN [data |-> Restrict(c.data, DOMAIN c.data \ {key}),
        expires |-> Restrict(c.expires, DOMAIN c.expires \ {key}),
        order |-> Tail(c.order)]

\* first half of TTLCache.__setitem__: expire, make room, store the value
SetData(c, key, value, time) ==
    LET e == Expire(c, time)
        r == IF key \notin DOMAIN e.data /\ Cardinality(DOMAIN e.data) >= maxsize
             THEN PopItem(e) ELSE e
    IN [r EXCEPT !.data = (key :> value) @@ r.data]

\* second half of TTLCache.__setitem__: the link with its expiry
SetLink(c, key, time) ==
    [c EXCEPT !.expires = (key :> (time + ttl)) @@ c.expires,
              !.order = Remove(c.order, key) \o <<key>>]

\* get_cached: _cache.get(key) under the lock; val is NoPayload for Python None
NoPayload == [shape |-> "none", keys |-> {}, tokens |-> <<>>, rank |-> <<>>]

get_cached(c, key, time) ==
    IF Contains(c, key, time) THEN GetItem(c, key)
    ELSE [val |-> NoPayload, cache |-> c]

\* set_cached with the store left out
set_cached_dropped(c, key, value, time) == c

\* set_cached: _cache[key] = value under the lock
set_cached(c, key, value, time) == SetLink(SetData(c, key, value, time), key, time)

\* clear_cache: _cache.clear() under the lock
clear_cache(c) == EmptyCache

(***************************************************************************)
(* Upstream payloads (gmgn.py GMGNClient._get returns response.json() or   *)
(* an error marker).  A payload is a dict with some of the keys tokens,    *)
(* rank, error, or a bare list (its items in the tokens field).            *)
(***************************************************************************)
Tok(a, vol, mc) == [address |-> Str(a), volume |-> Num(vol), market_cap |-> Num(mc)]

DictTokens(toks) == [shape |-> "dict", keys |-> {"tokens"}, tokens |-> toks, rank |-> <<>>]
DictRank(toks) == [shape |-> "dict", keys |-> {"rank"}, tokens |-> <<>>, rank |-> toks]
ErrorMarker == [shape |-> "dict", keys |-> {"error"}, tokens |-> <<>>, rank |-> <<>>]
EmptyJson == [shape |-> "dict", keys |-> {}, tokens |-> <<>>, rank |-> <<>>]

\* Python truthiness of a payload: a non-empty dict or list
PayloadTruthy(p) ==
    CASE p.shape = "dict" -> p.keys # {}
      [] p.shape = "list" -> p.tokens # <<>>
      [] OTHER -> FALSE

(***************************************************************************)
(* analysis_service.get_trending_data_with_cache, one task per call:       *)
(* idle -> (cache hit) returned | (miss) awaiting -> returned | raised     *)
(***************************************************************************)
NoStore == [by |-> 0, at |-> 0, truthy |-> FALSE]

IdleTask(timeframe, chain) ==
    [tf |-> timeframe, chain |-> chain, pc |-> "idle", result |-> NoPayload,
     began |-> 0, seen |-> NoStore, called |-> FALSE]

TaskKey(t) == CacheKey(task[t].tf, task[t].chain)

\* an error-marked mapping passed over as if nothing were cached
CacheHitUnlessError(cached) == PayloadTruthy(cached) /\ "error" \notin cached.keys

\* What get_trending_data_with_cache does with the cached value: `if cached_data`
CacheHit(cached) == PayloadTruthy(cached)

\* lines 9-15: look the key up; return the cached payload or call upstream
FetchBegin(t) ==
    /\ task[t].pc = "idle"
    /\ LET key == TaskKey(t)
           got == get_cached(cache, key, now)
       IN /\ cache' = got.cache
          /\ IF CacheHit(got.val)
             THEN /\ task' = [task EXCEPT ![t].pc = "returned", ![t].result = got.val,
                                          ![t].began = now, ![t].seen = lastStore[key]]
                  /\ upstream' = upstream
             ELSE /\ task' = [task EXCEPT ![t].pc = "awaiting", ![t].called = TRUE,
                                          ![t].began = now, ![t].seen = lastStore[key]]
                  /\ upstream' = [upstream EXCEPT ![key] = Append(@, now)]
    /\ UNCHANGED <<now, lastStore, agg, lock, thr, hist, deep, sc, answers, sig, ai>>

\* lines 15-17: the upstream call returns; the payload is stored and returned
FetchReturn(t) ==
    /\ task[t].pc = "awaiting"
    /\ \E p \in answers :
          /\ cache' = set_cached(cache, TaskKey(t), p, now)
          /\ task' = [task EXCEPT ![t].pc = "returned", ![t].result = p]
          /\ lastStore' = [lastStore EXCEPT ![TaskKey(t)] =
                              [by |-> t, at |-> now, truthy |-> PayloadTruthy(p)]]
    /\ UNCHANGED <<now, upstream, agg, lock, thr, hist, deep, sc, answers, sig, ai>>

\* line 15: the upstream call raises; nothing is stored
FetchRaise(t) ==
    /\ task[t].pc = "awaiting"
    /\ task' = [task EXCEPT ![t].pc = "raised"]
    /\ UNCHANGED <<now, cache, upstream, lastStore, agg, lock, thr, hist, deep, sc, answers, sig, ai>>

\* Time passes
MaxTime == 3

Tick ==
    /\ now < MaxTime
    /\ now' = now + 1
    /\ UNCHANGED <<cache, task, upstream, lastStore, agg, lock, thr, hist, deep, sc, answers, sig, ai>>

(***************************************************************************)
(* Defaults of the parts a specification does not exercise                 *)
(***************************************************************************)
AllKeys == {CacheKey(Timeframes[i], c) : i \in DOMAIN Timeframes, c \in Chains}

NoAgg == [pc |-> "off", min_consistency |-> 0, volume_threshold |-> 0,
          market_cap_threshold |-> 0, data |-> <<>>, out |-> <<>>]
NoHist == [map |-> <<>>, ops |-> 0]
NoDeep == [pc |-> "off"]
NoScore == [pc |-> "off"]
NoSig == [pc |-> "off"]
NoAi == [pc |-> "off"]

(***************************************************************************)
(* analysis_service.analyze_trending_tokens                                *)
(*                                                                         *)
(* Floats are fixed-point integers: a mean or a median x is held as        *)
(* x * Scale, exact for up to ten observations per address.                *)
(***************************************************************************)
Scale == 8 * 9 * 5 * 7

\* what asyncio.gather hands back for a task that raised
RaisedException == [shape |-> "exception", keys |-> {}, tokens |-> <<>>, rank |-> <<>>]

\* asyncio.gather without return_exceptions: the first exception propagates
gather_propagating == FALSE

\* asyncio.gather(*tasks, return_exceptions=True)
gather_return_exceptions == TRUE

\* line 42: the gathered results, in the order of the timeframes
Results == [i \in DOMAIN Timeframes |->
               IF task[i].pc = "raised" THEN RaisedException ELSE task[i].result]

\* the first key that is present wins, whatever it holds
TokensOfPresentKey(result) ==
    IF result.shape # "dict" THEN [ok |-> FALSE, toks |-> <<>>]
    ELSE IF "tokens" \in result.keys THEN [ok |-> TRUE, toks |-> result.tokens]
    ELSE IF "rank" \in result.keys THEN [ok |-> TRUE, toks |-> result.rank]
    ELSE [ok |-> TRUE, toks |-> <<>>]

\* line 52: result.get("tokens") or result.get("rank") or []
\* (ok is FALSE where a payload that is no dict has no .get: AttributeError)
TokensOf(result) ==
    IF result.shape # "dict" THEN [ok |-> FALSE, toks |-> <<>>]
    ELSE IF "tokens" \in result.keys /\ result.tokens # <<>>
         THEN [ok |-> TRUE, toks |-> result.tokens]
    ELSE IF "rank" \in result.keys /\ result.rank # <<>>
         THEN [ok |-> TRUE, toks |-> result.rank]
    ELSE [ok |-> TRUE, toks |-> <<>>]

RECURSIVE RowsOf(_, _)
\* lines 54-82: one row per token whose four numeric casts succeed
RowsOf(tf, toks) ==
    IF toks = <<>> THEN <<>>
    ELSE LET token == Head(toks)
             price == FloatOr0(Get(token, "price"))
             volume == FloatOr0(Get(token, "volume"))
             mcap == FloatOr0(Get(token, "market_cap"))
             p_change == FloatOr0(Get(token, "price_change_percent"))
             rest == RowsOf(tf, Tail(toks))
         IN IF price.ok /\ volume.ok /\ mcap.ok /\ p_change.ok
            THEN <<[address |-> Get(token, "address"), timeframe |-> tf,
                    price |-> price.v, volume |-> volume.v, market_cap |-> mcap.v,
                    price_change |-> p_change.v]>> \o rest
            ELSE rest

RECURSIVE Flatten(_, _)
\* lines 44-82: the rows of the timeframes from index i on; exceptions are skipped
Flatten(results, i) ==
    IF i > Len(results) THEN <<>>
    ELSE IF results[i] = RaisedException THEN Flatten(results, i + 1)
    ELSE RowsOf(Timeframes[i], TokensOf(results[i]).toks) \o Flatten(results, i + 1)

\* the rows of one address, in order
RowsFor(data, address) == SelectSeq(data, LAMBDA r : r.address = address)

Column(rows, f) == [i \in DOMAIN rows |-> rows[i][f]]

\* pandas "mean", times Scale
Mean(xs) == (SumSeq(xs) * Scale) \div Len(xs)

\* the arithmetic mean where the median belongs
MeanForMedian(xs) == (SumSeq(xs) * Scale) \div Len(xs)

\* pandas "median", times Scale: the middle of the sorted values, or the mean
\* of the two middle ones
Median(xs) ==
    LET s == SortAsc(xs)
        n == Len(s)
    IN IF n % 2 = 1 THEN s[(n + 1) \div 2] * Scale
       ELSE ((s[n \div 2] + s[n \div 2 + 1]) * Scale) \div 2

\* pandas "nunique" over the timeframe column, counting rows instead
CountRows(rows) == Len(rows)

\* pandas "nunique" over the timeframe column
NUnique(rows) == Cardinality({rows[i].timeframe : i \in DOMAIN rows})

\* lines 93-116: groupby("address").agg(...) for one address
GroupOf(data, address) ==
    LET rows == RowsFor(data, address)
    IN [address |-> address,
        consistency_count |-> NUnique(rows),
        avg_volume |-> Mean(Column(rows, "volume")),
        median_market_cap |-> Median(Column(rows, "market_cap")),
        avg_price |-> Mean(Column(rows, "price")),
        avg_price_change |-> Mean(Column(rows, "price_change"))]

\* groupby drops the rows whose address is None
GroupKeys(data) == {data[i].address : i \in DOMAIN data} \ {None}

RECURSIVE InKeyOrder(_)
\* the group keys in ascending order, as groupby yields them
InKeyOrder(keys) ==
    IF keys = {} THEN <<>>
    ELSE LET k == CHOOSE x \in keys : \A y \in keys : x.v <= y.v
         IN <<k>> \o InKeyOrder(keys \ {k})

Grouped(data) ==
    LET ks == InKeyOrder(GroupKeys(data))
    IN [i \in DOMAIN ks |-> GroupOf(data, ks[i])]

\* the filter with the volume threshold left out
KeepIgnoringVolume(g, min_consistency, volume_threshold, market_cap_threshold) ==
    /\ g.consistency_count >= min_consistency
    /\ g.median_market_cap >= market_cap_threshold * Scale

\* lines 119-123: the three thresholds
Keep(g, min_consistency, volume_threshold, market_cap_threshold) ==
    /\ g.consistency_count >= min_consistency
    /\ g.avg_volume >= volume_threshold * Scale
    /\ g.median_market_cap >= market_cap_threshold * Scale

\* sort order by consistency_count alone
BeforeByCountOnly(a, b) == a.consistency_count > b.consistency_count

\* line 126: a goes strictly before b under by=[consistency_count, avg_volume],
\* ascending=False
Before(a, b) ==
    \/ a.consistency_count > b.consistency_count
    \/ a.consistency_count = b.consistency_count /\ a.avg_volume > b.avg_volume

RECURSIVE InsertDesc(_, _)
InsertDesc(g, s) ==
    IF s = <<>> THEN <<g>>
    ELSE IF Before(Head(s), g) \/ ~Before(g, Head(s)) THEN <<Head(s)>> \o InsertDesc(g, Tail(s))
    ELSE <<g>> \o s

RECURSIVE SortValues(_)
\* line 126: sort_values, stable
SortValues(s) ==
    IF s = <<>> THEN <<>>
    ELSE InsertDesc(s[Len(s)], SortValues(SubSeq(s, 1, Len(s) - 1)))

\* lines 84-129
Aggregate(data, min_consistency, volume_threshold, market_cap_threshold) ==
    IF data = <<>> THEN <<>>
    ELSE SortValues(SelectSeq(Grouped(data),
            LAMBDA g : Keep(g, min_consistency, volume_threshold, market_cap_threshold)))

\* lines 42-129, after the five fetches have ended: the results are joined,
\* flattened, grouped, filtered and sorted
AnalyzeJoin ==
    /\ agg.pc = "gathering"
    /\ \A i \in DOMAIN Timeframes : task[i].pc \in {"returned", "raised"}
    /\ LET results == Results
           failed == \E i \in DOMAIN results : results[i] = RaisedException
           malformed == \E i \in DOMAIN results :
                           results[i] # RaisedException /\ ~TokensOf(results[i]).ok
           data == Flatten(results, 1)
       IN IF (failed /\ ~gather_return_exceptions) \/ malformed
          THEN agg' = [agg EXCEPT !.pc = "raised"]
          ELSE agg' = [agg EXCEPT !.pc = "returned", !.data = data,
                          !.out = Aggregate(data, agg.min_consistency,
                                            agg.volume_threshold, agg.market_cap_threshold)]
    /\ UNCHANGED <<now, cache, task, upstream, lastStore, lock, thr, hist, deep, sc, answers, sig, ai>>

\* the thresholds a call is made with: [min_consistency, volume, market cap]
Params == {<<0, 0, 0>>, <<2, 20, 30>>}

\* what the trending endpoint may answer: tokens of the addresses 1 and 2, one
\* address listed twice in a payload, one token without an address
Responses ==
    { ErrorMarker,
      DictTokens(<<Tok(1, 30, 40), Tok(2, 10, 40)>>),
      DictTokens(<<Tok(2, 30, 10), Tok(2, 20, 40)>>),
      DictRank(<<Tok(1, 20, 30), [volume |-> Num(50), market_cap |-> Num(50)]>>) }

InitAgg ==
    /\ now = 0
    /\ cache = EmptyCache
    /\ task = [i \in DOMAIN Timeframes |-> IdleTask(Timeframes[i], "sol")]
    /\ upstream = [k \in AllKeys |-> <<>>]
    /\ lastStore = [k \in AllKeys |-> NoStore]
    /\ \E p \in Params :
          agg = [pc |-> "gathering", min_consistency |-> p[1], volume_threshold |-> p[2],
                 market_cap_threshold |-> p[3], data |-> <<>>, out |-> <<>>]
    /\ lock = 0
    /\ thr = <<>>
    /\ hist = NoHist
    /\ deep = NoDeep
    /\ sc = NoScore
    /\ answers = Responses
    /\ sig = NoSig
    /\ ai = NoAi

NextAgg ==
    \/ \E t \in DOMAIN task : FetchBegin(t)
    \/ \E t \in DOMAIN task : FetchReturn(t)
    \/ \E t \in DOMAIN task : FetchRaise(t)
    \/ AnalyzeJoin

SpecAgg == InitAgg /\ [][NextAgg]_vars

(***************************************************************************)
(* deep_analysis_service.calculate_safety_score                            *)
(*                                                                         *)
(* Time is counted in hours.  The score is held in hundredths (round(x, 2) *)
(* times 100).  ok is FALSE where Python raises TypeError on comparing a   *)
(* value that is no number.                                                *)
(***************************************************************************)
\* x or 0
Or0(x) == IF Truthy(x) THEN x ELSE Num(0)

Comparable(x) == x.t \in {"num", "bool"}

\* a dict of the fields of rec that are not None
MkDict(rec) == [k \in {f \in DOMAIN rec : rec[f] # None} |-> rec[k]]

Line(bucket, arg, pts, of) ==
    [bucket |-> bucket, arg |-> arg, pts |-> pts, of |-> of, excluded |-> FALSE]

\* "Whale Conc: N/A (Excluded)"
ExcludedLine == [bucket |-> "Whale Conc", arg |-> None, pts |-> 0, of |-> 0, excluded |-> TRUE]

\* lines 17-30
LiquidityScore(liquidity) ==
    IF liquidity.v > 100000 THEN 30
    ELSE IF liquidity.v > 50000 THEN 20
    ELSE IF liquidity.v > 10000 THEN 10
    ELSE 0

\* lines 32-45
HolderScore(holder_count) ==
    IF holder_count.v > 1000 THEN 20
    ELSE IF holder_count.v > 500 THEN 15
    ELSE IF holder_count.v > 100 THEN 5
    ELSE 0

\* lines 47-60: age_hours = (time.time() - created_ts) / 3600
AgeScore(created_ts, time) ==
    IF ~Truthy(created_ts) THEN 0
    ELSE IF time - created_ts.v > 168 THEN 10
    ELSE IF time - created_ts.v > 24 THEN 5
    ELSE 0

\* both mint conditions credited
SecurityScoreTwice(security) ==
    (IF IsFalse(Get(security, "is_honeypot")) THEN 10 ELSE 0)
    + (IF IsFalse(Get(security, "is_mintable")) THEN 10 ELSE 0)
    + (IF EqOne(Get(security, "renounced_mint")) THEN 10 ELSE 0)

\* lines 62-81
SecurityScore(security) ==
    (IF IsFalse(Get(security, "is_honeypot")) THEN 10 ELSE 0)
    + (IF IsFalse(Get(security, "is_mintable")) THEN 10
       ELSE IF EqOne(Get(security, "renounced_mint")) THEN 10
       ELSE 0)

\* holder data taken as present whatever the mapping holds
HasHolderDataAlways(holders) == TRUE

\* line 91: has_holder_data
HasHolderData(holders) ==
    LET whale_conc == Get(holders, "whale_concentration_top10")
    IN \/ ~IsNone(whale_conc) /\ whale_conc.v > 0
       \/ Truthy(Get(holders, "top_holders"))

\* a missing value taken as the best case
WhaleValueBest(holders) ==
    LET whale_conc == Get(holders, "whale_concentration_top10")
    IN IF IsNone(whale_conc) THEN Num(0) ELSE whale_conc

\* line 95: the worst case where the list exists and the value is missing
WhaleValue(holders) ==
    LET whale_conc == Get(holders, "whale_concentration_top10")
    IN IF IsNone(whale_conc) THEN Num(100) ELSE whale_conc

\* the whale bucket scoring more the higher the concentration
WhaleScoreRising(whale_conc) ==
    IF whale_conc.v < 30 THEN 0
    ELSE IF whale_conc.v < 50 THEN 5
    ELSE IF whale_conc.v < 70 THEN 10
    ELSE 20

\* lines 97-102
WhaleScore(whale_conc) ==
    IF whale_conc.v < 30 THEN 20
    ELSE IF whale_conc.v < 50 THEN 10
    ELSE IF whale_conc.v < 70 THEN 5
    ELSE 0

\* the whale bucket never added to max_score
WhalePossibleForgotten(holders) == 0

\* lines 93-109: what the whale bucket adds to max_score
WhalePossible(holders) == IF HasHolderData(holders) THEN 20 ELSE 0

\* lines 111-123
SocialScore(socials) ==
    (IF Truthy(Get(socials, "website")) THEN 5 ELSE 0)
    + (IF Truthy(Get(socials, "twitter_username")) \/ Truthy(Get(socials, "twitter"))
       THEN 5 ELSE 0)
    + (IF Truthy(Get(socials, "telegram")) \/ Truthy(Get(socials, "discord"))
       THEN 5 ELSE 0)

\* round((score / max_score) * 100, 2), in hundredths
Normalize(score, max_score) ==
    IF max_score > 0 THEN (score * 10000 * 2 + max_score) \div (2 * max_score) ELSE 0

\* lines 8-134
calculate_safety_score(market, security, holders, socials, time) ==
    LET liquidity == Or0(Get(market, "liquidity"))
        holder_count == Or0(Get(market, "holder_count"))
        created_ts == Get(market, "created_timestamp")
        whale_conc == Get(holders, "whale_concentration_top10")
        counted == HasHolderData(holders)
        ok == /\ Comparable(liquidity)
              /\ Comparable(holder_count)
              /\ Truthy(created_ts) => Comparable(created_ts)
              /\ ~IsNone(whale_conc) => Comparable(whale_conc)
        liq_score == LiquidityScore(liquidity)
        holder_score == HolderScore(holder_count)
        age_score == AgeScore(created_ts, time)
        sec_score == SecurityScore(security)
        whale_score == IF counted THEN WhaleScore(WhaleValue(holders)) ELSE 0
        social_score == SocialScore(socials)
        score == liq_score + holder_score + age_score + sec_score + whale_score + social_score
        max_score == 30 + 20 + 10 + 20 + WhalePossible(holders) + 15
    IN IF ~ok THEN [ok |-> FALSE, score |-> 0, breakdown |-> <<>>]
       ELSE [ok |-> TRUE,
             score |-> Normalize(score, max_score),
             breakdown |->
                <<Line("Liquidity", liquidity, liq_score, 30),
                  Line("Holders", holder_count, holder_score, 20),
                  Line("Age", None, age_score, 10),
                  Line("Security", None, sec_score, 20),
                  IF counted THEN Line("Whale Conc", WhaleValue(holders), whale_score, 20)
                  ELSE ExcludedLine,
                  Line("Socials", None, social_score, 15)>>]

(***************************************************************************)
(* SpecScore: calculate_safety_score applied to inputs drawn from the      *)
(* values around each bucket's thresholds                                  *)
(***************************************************************************)
\* the hour at which the score is computed
ScoreTime == 200

Liquidities == {None, Num(10000), Num(50001), Num(100001)}
HolderCounts == {None, Num(101), Num(1001)}
CreatedTimestamps == {None, Num(ScoreTime - 25), Num(ScoreTime - 169)}
Flags == {None, Bool(FALSE), Bool(TRUE)}
RenouncedFlags == {None, Num(1), Num(2), Bool(TRUE)}
WhaleValues == {None, Num(0), Num(29), Num(49), Num(69), Num(100)}
TopHolders == {None, List(0), List(3)}
SocialSets ==
    { EmptyDict,
      [website |-> Str(1)],
      [twitter |-> Str(2), discord |-> Str(3)],
      [website |-> Str(1), twitter_username |-> Str(2), telegram |-> Str(3)] }

ScoreInputs ==
    [pc |-> "input", market |-> EmptyDict, security |-> EmptyDict, holders |-> EmptyDict,
     socials |-> EmptyDict, result |-> [ok |-> TRUE, score |-> 0, breakdown |-> <<>>]]

\* the function is applied to the inputs at the current time
Score ==
    /\ sc.pc = "input"
    /\ sc' = [sc EXCEPT !.pc = "done",
                        !.result = calculate_safety_score(sc.market, sc.security,
                                                          sc.holders, sc.socials, now)]
    /\ UNCHANGED <<now, cache, task, upstream, lastStore, agg, lock, thr, hist, deep, answers, sig, ai>>

InitScore ==
    /\ now = ScoreTime
    /\ cache = EmptyCache
    /\ task = <<>>
    /\ upstream = [k \in AllKeys |-> <<>>]
    /\ lastStore = [k \in AllKeys |-> NoStore]
    /\ agg = NoAgg
    /\ lock = 0
    /\ thr = <<>>
    /\ hist = NoHist
    /\ deep = NoDeep
    /\ answers = {}
    /\ sig = NoSig
    /\ ai = NoAi
    /\ \E liq \in Liquidities, hc \in HolderCounts, ts \in CreatedTimestamps,
          hp \in Flags, mint \in Flags, ren \in RenouncedFlags,
          wc \in WhaleValues, th \in TopHolders, soc \in SocialSets :
          sc = [ScoreInputs EXCEPT
                  !.market = MkDict([liquidity |-> liq, holder_count |-> hc,
                                     created_timestamp |-> ts]),
                  !.security = MkDict([is_honeypot |-> hp, is_mintable |-> mint,
                                       renounced_mint |-> ren]),
                  !.holders = MkDict([whale_concentration_top10 |-> wc, top_holders |-> th]),
                  !.socials = soc]

NextScore == Score

SpecScore == InitScore /\ [][NextScore]_vars

(***************************************************************************)
(* Claim C10: for every input the score lies in 0..100, and it is 0 when   *)
(* all four input mappings are empty.                                      *)
(***************************************************************************)
C10_ScoreRange ==
    sc.pc = "done" =>
        /\ sc.result.ok
        /\ sc.result.score >= 0
        /\ sc.result.score <= 100 * 100
        /\ (sc.market = EmptyDict /\ sc.security = EmptyDict
              /\ sc.holders = EmptyDict /\ sc.socials = EmptyDict) => sc.result.score = 0

\* the all-empty input scored
C10_WitnessEmpty ==
    /\ sc.pc = "done"
    /\ sc.market = EmptyDict /\ sc.security = EmptyDict
    /\ sc.holders = EmptyDict /\ sc.socials = EmptyDict

\* an input that earns every point of every bucket, the whale bucket counted
C10_Witness ==
    /\ sc.pc = "done"
    /\ sc.result.score = 100 * 100
    /\ HasHolderData(sc.holders)

(***************************************************************************)
(* SpecPair: calculate_safety_score applied twice, to inputs x and then to *)
(* inputs y that differ from x in at most one raw value, hours passing     *)
(* between the two evaluations                                             *)
(***************************************************************************)
\* the hours that may pass between the two evaluations
MaxWait == 1

Components == {"liquidity", "holder_count", "created_timestamp", "whale_concentration_top10"}

PairTimestamps == {None, Num(0), Num(ScoreTime - 24), Num(ScoreTime - 169)}

SecuritySets == { EmptyDict, [is_honeypot |-> Bool(FALSE), is_mintable |-> Bool(FALSE)] }

PairSocialSets ==
    { EmptyDict, [website |-> Str(1), twitter_username |-> Str(2), telegram |-> Str(3)] }

MenuOf(component) ==
    CASE component = "liquidity" -> Liquidities
      [] component = "holder_count" -> HolderCounts
      [] component = "created_timestamp" -> PairTimestamps
      [] component = "whale_concentration_top10" -> WhaleValues

\* the four mappings handed to calculate_safety_score, out of the raw values
MarketOf(x) ==
    MkDict([liquidity |-> x.liquidity, holder_count |-> x.holder_count,
            created_timestamp |-> x.created_timestamp])

HoldersOf(x) ==
    MkDict([whale_concentration_top10 |-> x.whale_concentration_top10,
            top_holders |-> x.top_holders])

ScoreOf(x, time) ==
    calculate_safety_score(MarketOf(x), x.security, HoldersOf(x), x.socials, time)

NoResult == [ok |-> TRUE, score |-> 0, breakdown |-> <<>>]

\* the first evaluation
ScoreFirst ==
    /\ sc.pc = "first"
    /\ sc' = [sc EXCEPT !.pc = "second", !.rx = ScoreOf(sc.x, now), !.tx = now]
    /\ UNCHANGED <<now, cache, task, upstream, lastStore, agg, lock, thr, hist, deep, answers, sig, ai>>

\* line 55: time.time() moves on between two evaluations
HourPasses ==
    /\ sc.pc = "second"
    /\ now < ScoreTime + MaxWait
    /\ now' = now + 1
    /\ UNCHANGED <<cache, task, upstream, lastStore, agg, lock, thr, hist, deep, sc, answers, sig, ai>>

\* the second evaluation
ScoreSecond ==
    /\ sc.pc = "second"
    /\ sc' = [sc EXCEPT !.pc = "done", !.ry = ScoreOf(sc.y, now), !.ty = now]
    /\ UNCHANGED <<now, cache, task, upstream, lastStore, agg, lock, thr, hist, deep, answers, sig, ai>>

InitPair ==
    /\ now = ScoreTime
    /\ cache = EmptyCache
    /\ task = <<>>
    /\ upstream = [k \in AllKeys |-> <<>>]
    /\ lastStore = [k \in AllKeys |-> NoStore]
    /\ agg = NoAgg
    /\ lock = 0
    /\ thr = <<>>
    /\ hist = NoHist
    /\ deep = NoDeep
    /\ answers = {}
    /\ sig = NoSig
    /\ ai = NoAi
    /\ \E liq \in Liquidities, hc \in HolderCounts, ts \in PairTimestamps,
          sec \in SecuritySets, wc \in WhaleValues, th \in TopHolders,
          soc \in PairSocialSets :
          LET x == [liquidity |-> liq, holder_count |-> hc, created_timestamp |-> ts,
                    whale_concentration_top10 |-> wc, top_holders |-> th,
                    security |-> sec, socials |-> soc]
          IN \/ sc = [pc |-> "first", x |-> x, y |-> x, changed |-> "none",
                      rx |-> NoResult, ry |-> NoResult, tx |-> 0, ty |-> 0]
             \/ \E c \in Components : \E v \in MenuOf(c) \ {x[c]} :
                   sc = [pc |-> "first", x |-> x, y |-> [x EXCEPT ![c] = v], changed |-> c,
                         rx |-> NoResult, ry |-> NoResult, tx |-> 0, ty |-> 0]

NextPair == ScoreFirst \/ HourPasses \/ ScoreSecond

SpecPair == InitPair /\ [][NextPair]_vars

PairDone == sc.pc = "done"

(***************************************************************************)
(* Claim C11: two evaluations of calculate_safety_score on identical       *)
(* mappings, at any two moments, return the same score and the same        *)
(* breakdown.                                                              *)
(***************************************************************************)
C11_Deterministic ==
    (PairDone /\ sc.changed = "none") => sc.rx = sc.ry

\* the same mappings, the second evaluation an hour or more after the first:
\* the age bucket moved from 0 to 5 points
C11_ClockRead ==
    /\ PairDone
    /\ sc.changed = "none"
    /\ sc.ty > sc.tx
    /\ sc.rx # sc.ry

(***************************************************************************)
(* Claim C12: all else fixed, raising liquidity, holder_count, token age   *)
(* or the whale-concentration value never lowers the score.                *)
(***************************************************************************)
IsNumber(x) == x.t = "num"

\* y holds a larger number than x in the changed component, at the same moment
RaisedIn(c) ==
    /\ PairDone
    /\ sc.changed = c
    /\ sc.tx = sc.ty
    /\ IsNumber(sc.x[c]) /\ IsNumber(sc.y[c])
    /\ sc.x[c].v < sc.y[c].v

\* y is older than x: an earlier created_timestamp at the same moment
OlderIn ==
    /\ PairDone
    /\ sc.changed = "created_timestamp"
    /\ sc.tx = sc.ty
    /\ IsNumber(sc.x.created_timestamp) /\ IsNumber(sc.y.created_timestamp)
    /\ sc.y.created_timestamp.v < sc.x.created_timestamp.v

C12_MonotoneEverywhere ==
    (\/ RaisedIn("liquidity")
     \/ RaisedIn("holder_count")
     \/ RaisedIn("whale_concentration_top10")
     \/ OlderIn)
    => sc.ry.score >= sc.rx.score

\* Amended: the score never falls when liquidity or holder_count is raised, or when
\* a token with a non-zero created_timestamp gets older (an earlier timestamp, or
\* time passing); it never rises when a whale concentration above 0 is raised.
C12_MonotonePerBucket ==
    /\ (RaisedIn("liquidity") \/ RaisedIn("holder_count")) => sc.ry.score >= sc.rx.score
    /\ (OlderIn /\ sc.y.created_timestamp.v # 0) => sc.ry.score >= sc.rx.score
    /\ (PairDone /\ sc.changed = "none") => sc.ry.score >= sc.rx.score
    /\ (RaisedIn("whale_concentration_top10") /\ sc.x.whale_concentration_top10.v > 0)
          => sc.ry.score <= sc.rx.score

\* a whale concentration raised from 29 to 69 percent, and the score fell
C12_Witness ==
    /\ RaisedIn("whale_concentration_top10")
    /\ sc.x.whale_concentration_top10 = Num(29)
    /\ sc.y.whale_concentration_top10 = Num(69)
    /\ sc.ry.score < sc.rx.score

\* liquidity raised over a threshold, and the score rose
C12_WitnessLiquidity ==
    /\ RaisedIn("liquidity")
    /\ sc.ry.score > sc.rx.score

(***************************************************************************)
(* Claim C13: with holders = {} the breakdown holds the exclusion line and *)
(* the whale bucket's 20 points are left out of max_score: an input whose  *)
(* other buckets are all maximal scores 100, strictly more than the same   *)
(* input with whale concentration scored as the worst case.                *)
(***************************************************************************)
RECURSIVE MaxScoreOf(_)
\* max_score, read back from the breakdown lines
MaxScoreOf(breakdown) ==
    IF breakdown = <<>> THEN 0 ELSE Head(breakdown).of + MaxScoreOf(Tail(breakdown))

RECURSIVE PointsOf(_)
PointsOf(breakdown) ==
    IF breakdown = <<>> THEN 0 ELSE Head(breakdown).pts + PointsOf(Tail(breakdown))

OthersMaximal(result) == PointsOf(result.breakdown) = 30 + 20 + 10 + 20 + 15

C13_WhaleExcluded ==
    (PairDone /\ HoldersOf(sc.x) = EmptyDict) =>
        /\ sc.rx.breakdown[5] = ExcludedLine
        /\ MaxScoreOf(sc.rx.breakdown) = 30 + 20 + 10 + 20 + 15
        /\ OthersMaximal(sc.rx) => sc.rx.score = 100 * 100
        /\ (/\ OthersMaximal(sc.rx)
            /\ sc.changed = "whale_concentration_top10"
            /\ sc.y.whale_concentration_top10 = Num(100)) => sc.ry.score < sc.rx.score

\* holders = {} with every other bucket maximal scores 100; the same input with a
\* whale concentration of 100 percent scores 95 of 115
C13_Witness ==
    /\ PairDone
    /\ HoldersOf(sc.x) = EmptyDict
    /\ OthersMaximal(sc.rx)
    /\ sc.rx.score = 100 * 100
    /\ sc.y.whale_concentration_top10 = Num(100)
    /\ sc.ry.score = 8261

(***************************************************************************)
(* deep_analysis_service.deep_analyze_token                                *)
(*                                                                         *)
(* A live lookup ends as [kind, error, wrap, d, buyers]: kind "exc" when   *)
(* it raised, "dict" when it returned a mapping (error: it holds the key   *)
(* "error"; wrap: its fields sit under "token" / "security_info"; d: the   *)
(* fields; buyers: the amounts of its "top_buyers" list), "other" when it  *)
(* returned something that is no mapping.                                  *)
(***************************************************************************)
Lookups == {"token_info", "security_info", "top_buyers"}

Pending == [kind |-> "pending", error |-> FALSE, wrap |-> FALSE, d |-> EmptyDict, buyers |-> <<>>]
Raised == [Pending EXCEPT !.kind = "exc"]
ErrorDict == [Pending EXCEPT !.kind = "dict", !.error = TRUE]
NotAMapping == [Pending EXCEPT !.kind = "other"]
Flat(d) == [Pending EXCEPT !.kind = "dict", !.d = d]
Wrapped(d) == [Pending EXCEPT !.kind = "dict", !.wrap = TRUE, !.d = d]
Buyers(amounts) == [Pending EXCEPT !.kind = "dict", !.buyers = amounts]

\* an entry of a token list that is no mapping (it has no .get)
NotADict == [notdict |-> Bool(TRUE)]
IsMapping(token) == "notdict" \notin DOMAIN token

\* a lookup failed: it raised or returned an error-marked mapping
Failed(r) == r.kind = "exc" \/ (r.kind = "dict" /\ r.error)
Succeeded(r) == r.kind = "dict" /\ ~r.error

\* the list is never searched: no address is found
FindTokenNever(toks, address) == [ok |-> TRUE, found |-> FALSE, token |-> EmptyDict]

RECURSIVE FindToken(_, _)
\* lines 149-152: the first token with the address; ok is FALSE where an entry
\* has no .get (AttributeError)
FindToken(toks, address) ==
    IF toks = <<>> THEN [ok |-> TRUE, found |-> FALSE, token |-> EmptyDict]
    ELSE IF ~IsMapping(Head(toks)) THEN [ok |-> FALSE, found |-> FALSE, token |-> EmptyDict]
    ELSE IF Get(Head(toks), "address") = address
         THEN [ok |-> TRUE, found |-> TRUE, token |-> Head(toks)]
    ELSE FindToken(Tail(toks), address)

ResponseKeys == {"address", "chain", "market_data", "security", "holders", "socials",
                 "errors", "safety"}

NoResponse == [keys |-> {}, address |-> None, chain |-> "", market_data |-> EmptyDict,
               security |-> EmptyDict, holders |-> EmptyDict, socials |-> EmptyDict,
               source |-> "", errors |-> <<>>,
               safety |-> [ok |-> TRUE, score |-> 0, breakdown |-> <<>>]]

\* token.get("top_10_holder_rate") * 100 if token.get("top_10_holder_rate") else 0
\* (the rate is held in hundredths: 0.15 is Num(15), and so is 15 percent)
RateTimes100(rate) ==
    IF ~Truthy(rate) THEN Num(0)
    ELSE IF rate.t \in {"num", "bool"} THEN Num(rate.v)
    ELSE rate

\* the two security flags read from the entry
FormatTrendingWithFlags(token, chain, time) ==
    LET market_data == [liquidity |-> Get(token, "liquidity"),
                        holder_count |-> Get(token, "holder_count"),
                        created_timestamp |-> Get(token, "open_timestamp")]
        security == [is_honeypot |-> Get(token, "is_honeypot"),
                     is_mintable |-> Get(token, "is_mintable"),
                     renounced_mint |-> Get(token, "renounced_mint")]
        holders == [whale_concentration_top10 |-> RateTimes100(Get(token, "top_10_holder_rate"))]
        socials == [twitter_username |-> Get(token, "twitter_username"),
                    website |-> Get(token, "website"),
                    telegram |-> Get(token, "telegram")]
    IN [keys |-> ResponseKeys \cup {"source"},
        address |-> Get(token, "address"), chain |-> chain,
        market_data |-> market_data, security |-> security, holders |-> holders,
        socials |-> socials, source |-> "trending_cache", errors |-> <<>>,
        safety |-> calculate_safety_score(market_data, security, holders, socials, time)]

\* lines 268-313: _format_trending_token_as_deep_analysis
FormatTrending(token, chain, time) ==
    LET market_data == [symbol |-> Get(token, "symbol"), name |-> Get(token, "name"),
                        price |-> Get(token, "price"),
                        market_cap |-> Get(token, "market_cap"),
                        liquidity |-> Get(token, "liquidity"),
                        volume_24h |-> Get(token, "volume"),
                        price_change_24h |-> Get(token, "price_change_percent"),
                        holder_count |-> Get(token, "holder_count"),
                        created_timestamp |-> Get(token, "open_timestamp")]
        security == [is_honeypot |-> None, is_mintable |-> None,
                     renounced_mint |-> Get(token, "renounced_mint"),
                     renounced_freeze_account |-> Get(token, "renounced_freeze_account"),
                     burn_ratio |-> Get(token, "burn_ratio"),
                     burn_status |-> Get(token, "burn_status"),
                     launchpad |-> Get(token, "launchpad")]
        holders == [whale_concentration_top10 |-> RateTimes100(Get(token, "top_10_holder_rate")),
                    top_buyers_count |-> None,
                    bluechip_owner_percentage |-> Get(token, "bluechip_owner_percentage"),
                    smart_degen_count |-> Get(token, "smart_degen_count")]
        socials == [twitter_username |-> Get(token, "twitter_username"),
                    website |-> Get(token, "website"),
                    telegram |-> Get(token, "telegram"),
                    discord |-> None]
    IN [keys |-> ResponseKeys \cup {"source"},
        address |-> Get(token, "address"), chain |-> chain,
        market_data |-> market_data, security |-> security, holders |-> holders,
        socials |-> socials, source |-> "trending_cache", errors |-> <<>>,
        safety |-> calculate_safety_score(market_data, security, holders, socials, time)]

\* lines 179-207: market_data and socials out of the token info
MarketData(r) ==
    IF ~Succeeded(r) THEN EmptyDict
    ELSE [symbol |-> Get(r.d, "symbol"), name |-> Get(r.d, "name"),
          price |-> Get(r.d, "price"), market_cap |-> Get(r.d, "market_cap"),
          liquidity |-> Get(r.d, "liquidity"), volume_24h |-> Get(r.d, "volume"),
          price_change_24h |-> Get(r.d, "price_change_24h"),
          holder_count |-> Get(r.d, "holder_count"),
          created_timestamp |-> Get(r.d, "created_timestamp")]

Socials(r) ==
    IF ~Succeeded(r) THEN EmptyDict
    ELSE [twitter_username |-> Get(r.d, "twitter_username"), website |-> Get(r.d, "website"),
          telegram |-> Get(r.d, "telegram"), discord |-> Get(r.d, "discord")]

\* lines 209-234
Security(r) ==
    IF ~Succeeded(r) THEN EmptyDict
    ELSE [is_honeypot |-> Get(r.d, "is_honeypot"),
          is_open_source |-> Get(r.d, "is_open_source"),
          is_proxy |-> Get(r.d, "is_proxy"),
          is_mintable |-> Get(r.d, "is_mintable"),
          owner_address |-> Get(r.d, "owner_address"),
          creator_address |-> Get(r.d, "creator_address"),
          can_take_back_ownership |-> Get(r.d, "can_take_back_ownership"),
          owner_change_balance |-> Get(r.d, "owner_change_balance"),
          hidden_owner |-> Get(r.d, "hidden_owner"),
          selfdestruct |-> Get(r.d, "selfdestruct"),
          external_call |-> Get(r.d, "external_call"),
          renounced_mint |-> Get(r.d, "renounced_mint"),
          renounced_freeze_account |-> Get(r.d, "renounced_freeze_account")]

\* buyers_list[:10]
FirstTen(buyers) == SubSeq(buyers, 1, IF Len(buyers) < 10 THEN Len(buyers) ELSE 10)

\* lines 246-252: the holdings of the first ten buyers, summed; ok is FALSE
\* where float() raises
Holdings(buyers) ==
    LET casts == [i \in DOMAIN FirstTen(buyers) |-> FloatOr0(buyers[i])]
    IN [ok |-> \A i \in DOMAIN casts : casts[i].ok,
        sum |-> SumSeq([i \in DOMAIN casts |-> casts[i].v])]

\* the first ten buyers' holdings over the holdings of every listed buyer
HoldersOfAll(r) ==
    IF ~Succeeded(r) THEN EmptyDict
    ELSE LET top_10_holdings == Holdings(r.buyers).sum
             total_holdings == SumSeq([i \in DOMAIN r.buyers |-> FloatOr0(r.buyers[i]).v])
             whale_concentration ==
                 IF total_holdings > 0 THEN (top_10_holdings * 100) \div total_holdings ELSE 0
         IN [top_buyers_count |-> Num(Len(r.buyers)),
             whale_concentration_top10 |-> Num(whale_concentration),
             top_holders |-> List(Len(FirstTen(r.buyers)))]

\* lines 236-260
Holders(r) ==
    IF ~Succeeded(r) THEN EmptyDict
    ELSE LET top_10_holdings == Holdings(r.buyers).sum
             total_holdings == Holdings(r.buyers).sum
             whale_concentration ==
                 IF total_holdings > 0 THEN (top_10_holdings * 100) \div total_holdings ELSE 0
         IN [top_buyers_count |-> Num(Len(r.buyers)),
             whale_concentration_top10 |-> Num(whale_concentration),
             top_holders |-> List(Len(FirstTen(r.buyers)))]

ErrorOf(r, label) == IF Failed(r) THEN <<label>> ELSE <<>>

\* lines 167-266: the record built from the three gathered results
BuildResponse(address, chain, look, time) ==
    LET market_data == MarketData(look["token_info"])
        security == Security(look["security_info"])
        holders == Holders(look["top_buyers"])
        socials == Socials(look["token_info"])
    IN [keys |-> ResponseKeys,
        address |-> address, chain |-> chain,
        market_data |-> market_data, security |-> security, holders |-> holders,
        socials |-> socials, source |-> "",
        errors |-> ErrorOf(look["token_info"], "Token info error")
                   \o ErrorOf(look["security_info"], "Security info error")
                   \o ErrorOf(look["top_buyers"], "Top buyers error"),
        safety |-> calculate_safety_score(market_data, security, holders, socials, time)]

\* asyncio.gather of the three lookups without return_exceptions
lookups_propagating == FALSE

\* line 162: asyncio.gather(..., return_exceptions=True)
lookups_return_exceptions == TRUE

\* lines 144-165: the trending lookup has ended; the address is looked for in
\* the 1h list, and the record is built from it or the three lookups are issued
DeepTrending ==
    /\ deep.pc = "trending"
    /\ task[1].pc \in {"returned", "raised"}
    /\ IF task[1].pc = "raised"
       THEN deep' = [deep EXCEPT !.pc = "raised"]
       ELSE LET trending_data == task[1].result
                toks == IF trending_data.shape = "dict"
                        THEN TokensOf(trending_data).toks ELSE <<>>
                hit == FindToken(toks, deep.address)
            IN IF ~hit.ok THEN deep' = [deep EXCEPT !.pc = "raised"]
               ELSE IF hit.found
               THEN LET resp == FormatTrending(hit.token, deep.chain, now)
                    IN IF resp.safety.ok
                       THEN deep' = [deep EXCEPT !.pc = "returned", !.path = "trending",
                                                 !.response = resp]
                       ELSE deep' = [deep EXCEPT !.pc = "raised", !.path = "trending"]
               ELSE deep' = [deep EXCEPT !.pc = "gathering", !.path = "live"]
    /\ UNCHANGED <<now, cache, task, upstream, lastStore, agg, lock, thr, hist, sc, answers, sig, ai>>

TokenInfoAnswers ==
    { Raised, ErrorDict, NotAMapping,
      Flat([symbol |-> Str(7), name |-> Str(8), price |-> Num(2), liquidity |-> Num(50001),
            holder_count |-> Num(501), website |-> Str(9)]),
      Wrapped([symbol |-> Str(7), liquidity |-> Num(100001)]) }

SecurityAnswers ==
    { Raised, ErrorDict, NotAMapping,
      Flat([is_honeypot |-> Bool(FALSE), is_mintable |-> Bool(FALSE)]),
      Wrapped([is_honeypot |-> Bool(TRUE), renounced_mint |-> Num(1)]) }

TopBuyersAnswers ==
    { Raised, ErrorDict, NotAMapping,
      [ErrorDict EXCEPT !.buyers = <<>>],
      Buyers(<<Num(1000), Num(500)>>),
      Buyers(<<Num(0), Num(0)>>),
      Buyers([i \in 1..11 |-> IF i \in {1, 11} THEN Num(5) ELSE Num(0)]),
      Buyers([i \in 1..11 |-> IF i = 11 THEN Num(5) ELSE Num(0)]),
      Buyers(<<>>) }

AnswersOf(l) ==
    CASE l = "token_info" -> TokenInfoAnswers
      [] l = "security_info" -> SecurityAnswers
      [] l = "top_buyers" -> TopBuyersAnswers

\* lines 158-163: one of the three lookups ends
LookupEnds(l) ==
    /\ deep.pc = "gathering"
    /\ deep.look[l] = Pending
    /\ \E r \in AnswersOf(l) : deep' = [deep EXCEPT !.look[l] = r]
    /\ UNCHANGED <<now, cache, task, upstream, lastStore, agg, lock, thr, hist, sc, answers, sig, ai>>

\* lines 165-266: the three lookups have ended and the record is built
DeepJoin ==
    /\ deep.pc = "gathering"
    /\ \A l \in Lookups : deep.look[l] # Pending
    /\ LET resp == BuildResponse(deep.address, deep.chain, deep.look, now)
           raised == \E l \in Lookups : deep.look[l].kind = "exc"
       IN IF (raised /\ ~lookups_return_exceptions) \/ ~Holdings(deep.look["top_buyers"].buyers).ok
             \/ ~resp.safety.ok
          THEN deep' = [deep EXCEPT !.pc = "raised"]
          ELSE deep' = [deep EXCEPT !.pc = "returned", !.response = resp]
    /\ UNCHANGED <<now, cache, task, upstream, lastStore, agg, lock, thr, hist, sc, answers, sig, ai>>

\* a token of the 1h trending list
TrendTok(a) ==
    [address |-> Str(a), symbol |-> Str(7), liquidity |-> Num(100001),
     holder_count |-> Num(1001), open_timestamp |-> Num(ScoreTime - 169),
     is_honeypot |-> Bool(FALSE), is_mintable |-> Bool(FALSE),
     renounced_mint |-> Num(1), top_10_holder_rate |-> Num(15),
     website |-> Str(9), twitter_username |-> Str(9), telegram |-> Str(9)]

\* the same without a holder rate, and one with little to its credit
TrendTokNoRate(a) ==
    [address |-> Str(a), symbol |-> Str(7), liquidity |-> Num(100001),
     holder_count |-> Num(1001), open_timestamp |-> Num(ScoreTime - 169),
     is_honeypot |-> Bool(FALSE), is_mintable |-> Bool(FALSE),
     renounced_mint |-> Num(1),
     website |-> Str(9), twitter_username |-> Str(9), telegram |-> Str(9)]
TrendTokPoor(a) ==
    [address |-> Str(a), symbol |-> Str(7), liquidity |-> Num(10),
     top_10_holder_rate |-> Num(80)]

\* what the 1h trending endpoint may answer to the deep analysis
DeepResponses ==
    { ErrorMarker,
      EmptyJson,
      DictTokens(<<TrendTok(2), TrendTok(1)>>),
      DictRank(<<TrendTok(2)>>),
      DictTokens(<<TrendTokNoRate(1)>>),
      DictRank(<<TrendTokPoor(1)>>),
      DictTokens(<<NotADict>>),
      [shape |-> "list", keys |-> {}, tokens |-> <<TrendTok(1)>>, rank |-> <<>>] }

InitDeep ==
    /\ now = ScoreTime
    /\ cache = EmptyCache
    /\ task = <<IdleTask("1h", "sol")>>
    /\ upstream = [k \in AllKeys |-> <<>>]
    /\ lastStore = [k \in AllKeys |-> NoStore]
    /\ agg = NoAgg
    /\ lock = 0
    /\ thr = <<>>
    /\ hist = NoHist
    /\ deep = [pc |-> "trending", path |-> "", address |-> Str(1), chain |-> "sol",
               look |-> [l \in Lookups |-> Pending], response |-> NoResponse]
    /\ sc = NoScore
    /\ answers = DeepResponses
    /\ sig = NoSig
    /\ ai = NoAi

NextDeep ==
    \/ FetchBegin(1)
    \/ FetchReturn(1)
    \/ FetchRaise(1)
    \/ DeepTrending
    \/ \E l \in Lookups : LookupEnds(l)
    \/ DeepJoin

SpecDeep == InitDeep /\ [][NextDeep]_vars

(***************************************************************************)
(* Claim C2: the address not being in the 1h list, for every combination   *)
(* of the three lookups succeeding, raising or returning an error-marked   *)
(* mapping, deep_analyze_token returns a record; errors has one entry per  *)
(* failed lookup, the sub-objects of a failed lookup are empty, and a      *)
(* succeeded token info populates market_data.                             *)
(***************************************************************************)
DeepEnded == deep.pc \in {"returned", "raised"}

FailedLookups == {l \in Lookups : Failed(deep.look[l])}

C2_PartialFailures ==
    (/\ DeepEnded
     /\ deep.path = "live"
     /\ \A l \in Lookups : Failed(deep.look[l]) \/ Succeeded(deep.look[l]))
    => /\ deep.pc = "returned"
       /\ Len(deep.response.errors) = Cardinality(FailedLookups)
       /\ "token_info" \in FailedLookups =>
             deep.response.market_data = EmptyDict /\ deep.response.socials = EmptyDict
       /\ "security_info" \in FailedLookups => deep.response.security = EmptyDict
       /\ "top_buyers" \in FailedLookups => deep.response.holders = EmptyDict
       /\ "token_info" \notin FailedLookups =>
             /\ deep.response.market_data # EmptyDict
             /\ deep.response.market_data.symbol = deep.look["token_info"].d.symbol

\* the token info succeeded while the security info raised and the top buyers
\* came back error-marked: two errors
C2_Witness ==
    /\ deep.pc = "returned"
    /\ deep.path = "live"
    /\ Succeeded(deep.look["token_info"])
    /\ deep.look["security_info"].kind = "exc"
    /\ deep.look["top_buyers"].kind = "dict" /\ deep.look["top_buyers"].error
    /\ Len(deep.response.errors) = 2

(***************************************************************************)
(* Claim C3: deep_analyze_token returns a record whichever upstream call   *)
(* fails, the 1h trending lookup included: it never raises.                *)
(***************************************************************************)
C3_AlwaysReturnsRecord == deep.pc # "raised"

(***************************************************************************)
(* Claim C14: every record deep_analyze_token returns carries a source:    *)
(* trending_cache when built from the cached trending list, live_fetch     *)
(* when built from the three live lookups.                                 *)
(***************************************************************************)
C14_SourceProvenance ==
    deep.pc = "returned" =>
        /\ "source" \in deep.response.keys
        /\ deep.path = "trending" => deep.response.source = "trending_cache"
        /\ deep.path = "live" => deep.response.source = "live_fetch"

(***************************************************************************)
(* signals_service: the three signal detectors                             *)
(*                                                                         *)
(* A number is [inf, v]: v counts units of the field (progress: 1/1000;    *)
(* timestamps: seconds; volume, market cap, liquidity, price change: 1),   *)
(* inf marks the float infinity a JSON number such as 1e999 parses to.     *)
(* A cast ends as "ok", as "skip" (ValueError / TypeError, which the loops *)
(* catch) or as "abort" (OverflowError, which they do not).                *)
(***************************************************************************)
Inf == [t |-> "inf", v |-> 1]
\* a string holding a decimal number, such as "0.96"
DecStr(n) == [t |-> "decstr", v |-> n]

Cast(st, v, inf) == [st |-> st, v |-> v, inf |-> inf]

\* float(x)
FloatOf(x) ==
    CASE x.t \in {"num", "bool", "numstr", "decstr"} -> Cast("ok", x.v, FALSE)
      [] x.t = "inf" -> Cast("ok", 0, TRUE)
      [] OTHER -> Cast("skip", 0, FALSE)

\* int(x): a string holding a decimal point is a ValueError, infinity an OverflowError
IntOf(x) ==
    CASE x.t \in {"num", "bool", "numstr"} -> Cast("ok", x.v, FALSE)
      [] x.t = "inf" -> Cast("abort", 0, FALSE)
      [] OTHER -> Cast("skip", 0, FALSE)

\* round(n / d, 0) the way Python rounds an exact tie: to the even neighbour
RoundHalfEven(n, d) ==
    LET q == n \div d
        r == n % d
    IN IF 2 * r < d THEN q
       ELSE IF 2 * r > d THEN q + 1
       ELSE IF q % 2 = 0 THEN q ELSE q + 1

\* progress is counted in 1/1000
ProgressUnit == 10 * 100

\* the range left open at the top
ProgressAtLeast(progress, min_progress, max_progress) ==
    min_progress * ProgressUnit <= progress

\* line 46: min_progress <= progress <= max_progress
ProgressInRange(progress, min_progress, max_progress) ==
    min_progress * ProgressUnit <= progress /\ progress <= max_progress * ProgressUnit

\* lines 37-71: one token of the completion list; what is emitted, if anything
GraduationOf(token, min_progress, max_progress, min_holders) ==
    LET progress_raw == Get(token, "progress")
        raw == FloatOf(progress_raw)
        \* percent, in 1/1000: float(raw) * 100 if float(raw) <= 1.0 else float(raw)
        progress == IF raw.v <= ProgressUnit THEN raw.v * 100 ELSE raw.v
        holder_count == IntOf(Or0(Get(token, "holder_count")))
    IN IF IsNone(progress_raw) THEN [st |-> "skip"]
       ELSE IF raw.st # "ok" THEN [st |-> raw.st]
       ELSE IF holder_count.st # "ok" THEN [st |-> holder_count.st]
       ELSE IF raw.inf THEN [st |-> "skip"]
       ELSE IF ~ProgressInRange(progress, min_progress, max_progress) THEN [st |-> "skip"]
       ELSE IF holder_count.v < min_holders THEN [st |-> "skip"]
       ELSE [st |-> "ok",
             signal |-> [signal_type |-> "pump_graduation",
                         address |-> Get(token, "address"),
                         \* round(progress, 2), in hundredths of a percent
                         progress_pct |-> RoundHalfEven(progress, ProgressUnit \div 100),
                         holder_count |-> holder_count.v]]

\* a record that is no mapping has no .get: AttributeError, caught by no except
NoGet == [st |-> "abort"]

RECURSIVE Detect(_, _, _)
\* the loop over the records, from record i on: outcomes[i] says what record i
\* does; an "abort" leaves the loop by an exception
Detect(outcomes, i, signals) ==
    IF i \notin DOMAIN outcomes THEN [ok |-> TRUE, out |-> signals]
    ELSE IF outcomes[i].st = "abort" THEN [ok |-> FALSE, out |-> <<>>]
    ELSE Detect(outcomes, i + 1,
                IF outcomes[i].st = "ok" THEN Append(signals, outcomes[i].signal)
                ELSE signals)

\* lines 27-31: the token list of a completion payload
CompletionTokens(data) ==
    IF data.shape = "dict" THEN TokensOf(data).toks
    ELSE IF data.shape = "list" THEN data.tokens
    ELSE <<>>

\* lines 5-73
get_pump_graduation_signals(data, min_progress, max_progress, min_holders) ==
    LET tokens == CompletionTokens(data)
        outcomes == [i \in DOMAIN tokens |->
                        IF IsMapping(tokens[i])
                        THEN GraduationOf(tokens[i], min_progress, max_progress, min_holders)
                        ELSE NoGet]
    IN Detect(outcomes, 1, <<>>)

\* no pair is too old
NeverTooOld(age_seconds, max_age_minutes) == FALSE

\* line 113: age_minutes > max_age_minutes, with age_minutes = age_seconds / 60
TooOld(age_seconds, max_age_minutes) == age_seconds > max_age_minutes * 60

\* lines 104-138: one pair of the new-pairs list; time is the time.time() of line 101
EarlyGemOf(pair, min_liquidity, max_age_minutes, time) ==
    LET first == Get(pair, "open_timestamp")
        open_ts == IF Truthy(first) THEN first ELSE Get(pair, "creation_timestamp")
        ts == IntOf(open_ts)
        age_seconds == time - ts.v
        liquidity == FloatOf(Or0(Get(pair, "liquidity")))
    IN IF ~Truthy(open_ts) THEN [st |-> "skip"]
       ELSE IF ts.st # "ok" THEN [st |-> ts.st]
       ELSE IF liquidity.st # "ok" THEN [st |-> liquidity.st]
       ELSE IF TooOld(age_seconds, max_age_minutes) THEN [st |-> "skip"]
       ELSE IF ~liquidity.inf /\ liquidity.v < min_liquidity THEN [st |-> "skip"]
       ELSE [st |-> "ok",
             signal |-> [signal_type |-> "early_gem",
                         address |-> Get(pair, "address"),
                         \* round(age_minutes, 1), in tenths of a minute
                         age_minutes |-> RoundHalfEven(age_seconds * 10, 60),
                         liquidity |-> [inf |-> liquidity.inf, v |-> liquidity.v]]]

\* lines 94-98: the pair list of a new-pairs payload
PairsOf(data) ==
    IF data.shape = "dict"
    THEN IF "pairs" \in data.keys /\ data.pairs # <<>> THEN data.pairs
         ELSE IF "tokens" \in data.keys /\ data.tokens # <<>> THEN data.tokens
         ELSE <<>>
    ELSE IF data.shape = "list" THEN data.tokens
    ELSE <<>>

\* lines 75-140
get_early_gem_signals(data, min_liquidity, max_age_minutes, time) ==
    LET pairs == PairsOf(data)
        outcomes == [i \in DOMAIN pairs |->
                        IF IsMapping(pairs[i])
                        THEN EarlyGemOf(pairs[i], min_liquidity, max_age_minutes, time)
                        ELSE NoGet]
    IN Detect(outcomes, 1, <<>>)

\* min_vol_mcap_ratio is counted in hundredths
RatioUnit == 10 * 10

\* lines 163-200: one token of the 1h trending list
MomentumOf(token, min_vol_mcap_ratio, min_price_change_1h) ==
    LET market_cap == FloatOf(Or0(Get(token, "market_cap")))
        volume_24h == FloatOf(Or0(Get(token, "volume")))
        price_change == FloatOf(Or0(Get(token, "price_change_percent")))
        \* volume_24h / market_cap where an infinity is involved
        nan == volume_24h.inf /\ market_cap.inf
        infinite == volume_24h.inf /\ ~market_cap.inf
        \* the quotient times its divisor
        quotient == IF market_cap.inf THEN 0 ELSE volume_24h.v
        divisor == IF market_cap.inf THEN 1 ELSE market_cap.v
    IN IF market_cap.st # "ok" THEN [st |-> market_cap.st]
       ELSE IF volume_24h.st # "ok" THEN [st |-> volume_24h.st]
       ELSE IF price_change.st # "ok" THEN [st |-> price_change.st]
       ELSE IF ~market_cap.inf /\ market_cap.v <= 0 THEN [st |-> "skip"]
       \* nan passes both filters and round(nan * 100) is a ValueError
       ELSE IF nan THEN [st |-> "skip"]
       ELSE IF ~infinite /\ quotient * RatioUnit < min_vol_mcap_ratio * divisor
            THEN [st |-> "skip"]
       ELSE IF ~price_change.inf /\ price_change.v < min_price_change_1h THEN [st |-> "skip"]
       \* lines 194-195: round(vol_mcap_ratio*100), round(price_change)
       ELSE IF infinite \/ price_change.inf THEN [st |-> "abort"]
       ELSE [st |-> "ok",
             signal |-> [signal_type |-> "momentum_breakout",
                         address |-> Get(token, "address"),
                         \* round(vol_mcap_ratio, 2), in hundredths
                         turnover_ratio |-> RoundHalfEven(quotient * 100, divisor),
                         price_change_1h |-> price_change.v,
                         volume |-> volume_24h.v,
                         market_cap |-> [inf |-> market_cap.inf, v |-> market_cap.v]]]

RECURSIVE InsertByTurnover(_, _)
\* x put after every signal whose turnover_ratio is not smaller: list.sort is stable
InsertByTurnover(x, sorted) ==
    IF sorted = <<>> THEN <<x>>
    ELSE IF Head(sorted).turnover_ratio >= x.turnover_ratio
         THEN <<Head(sorted)>> \o InsertByTurnover(x, Tail(sorted))
    ELSE <<x>> \o sorted

\* the sort left out
Unsorted(signals, sorted) == signals

RECURSIVE SortByTurnover(_, _)
\* line 203: signals.sort(key=turnover_ratio, reverse=True)
SortByTurnover(signals, sorted) ==
    IF signals = <<>> THEN sorted
    ELSE SortByTurnover(Tail(signals), InsertByTurnover(Head(signals), sorted))

\* lines 156-158: the token list of the 1h trending payload
MomentumTokens(data) == IF data.shape = "dict" THEN TokensOf(data).toks ELSE <<>>

\* lines 142-205, after the trending lookup
get_momentum_signals(data, min_vol_mcap_ratio, min_price_change_1h) ==
    LET tokens == MomentumTokens(data)
        outcomes == [i \in DOMAIN tokens |->
                        IF IsMapping(tokens[i])
                        THEN MomentumOf(tokens[i], min_vol_mcap_ratio, min_price_change_1h)
                        ELSE NoGet]
        found == Detect(outcomes, 1, <<>>)
    IN IF found.ok THEN [ok |-> TRUE, out |-> SortByTurnover(found.out, <<>>)] ELSE found

(***************************************************************************)
(* SpecSignals: one call of one detector, on a batch of at most MaxBatch   *)
(* records under each payload shape                                        *)
(***************************************************************************)
MaxBatch == 3

\* the time.time() of the call, in seconds
SigTime == ScoreTime + 10000

Batches(menu) == UNION {[1..n -> menu] : n \in 0..MaxBatch}

\* records of the completion list: progress "0.96", "0.50", "0.99", 96.5, 1.0,
\* 99.999, 100.001, a progress or a holder count that is no number, a missing
\* progress, an infinite holder count
GraduationRecords ==
    { [address |-> Str(1), progress |-> DecStr(960), holder_count |-> Num(100)],
      [address |-> Str(2), progress |-> DecStr(500), holder_count |-> Num(100)],
      [address |-> Str(3), progress |-> DecStr(990), holder_count |-> Num(10)],
      [address |-> Str(4), progress |-> Num(96500), holder_count |-> NumStr(50)],
      [address |-> Str(5), progress |-> Num(1000), holder_count |-> Num(60)],
      [address |-> Str(6), progress |-> Num(99999), holder_count |-> Num(60)],
      [address |-> Str(7), progress |-> Num(100001), holder_count |-> Num(60)],
      [address |-> Str(8), progress |-> Str(5), holder_count |-> Num(100)],
      [address |-> Str(9), progress |-> Num(970), holder_count |-> DecStr(605)],
      [address |-> Str(10), holder_count |-> Num(100)],
      [address |-> Str(11), progress |-> DecStr(960), holder_count |-> Inf] }

\* pairs of the new-pairs list, their timestamps counted back from the call
EarlyGemRecords ==
    { [address |-> Str(1), liquidity |-> Num(10000), open_timestamp |-> Num(SigTime - 600)],
      [address |-> Str(2), liquidity |-> Num(100), open_timestamp |-> Num(SigTime - 600)],
      [address |-> Str(3), liquidity |-> Num(50000), open_timestamp |-> Num(SigTime - 7200)],
      [address |-> Str(4), liquidity |-> NumStr(5000),
       creation_timestamp |-> NumStr(SigTime - 3600)],
      [address |-> Str(5), liquidity |-> Num(10000), open_timestamp |-> DecStr(15)],
      [address |-> Str(6), liquidity |-> Str(5), open_timestamp |-> Num(SigTime - 600)],
      [address |-> Str(7), liquidity |-> Num(10000)],
      [address |-> Str(8), liquidity |-> Num(10000), open_timestamp |-> Num(0),
       creation_timestamp |-> Num(SigTime - 600)],
      [address |-> Str(9), liquidity |-> Num(10000), open_timestamp |-> Inf],
      [address |-> Str(10), liquidity |-> Inf, open_timestamp |-> Num(SigTime - 600)],
      [address |-> Str(11), open_timestamp |-> Num(SigTime - 600)],
      [address |-> Str(12), liquidity |-> Num(10000), open_timestamp |-> Num(SigTime - 3601)] }

MTok(a, vol, mc, change) ==
    [address |-> Str(a), volume |-> vol, market_cap |-> mc, price_change_percent |-> change]

\* tokens of the 1h trending list: ratios 0.30, 0.50, 0.19 and 0.125, a volume that
\* is no number, a price change below the threshold, an infinite volume, a
\* missing market cap
MomentumRecords ==
    { MTok(1, Num(30), Num(100), Num(10)),
      MTok(2, Num(50), Num(100), NumStr(12)),
      MTok(4, Str(5), Num(100), Num(20)),
      MTok(5, Num(19), Num(100), Num(20)),
      MTok(6, Num(50), Num(100), Num(9)),
      MTok(7, Num(125), Num(1000), Num(20)),
      MTok(8, Inf, Num(100), Num(20)),
      [address |-> Str(11), volume |-> Num(50), price_change_percent |-> Num(20)] }

BareList(records) == [shape |-> "list", keys |-> {}, tokens |-> records, rank |-> <<>>]
BothKeys(tokens, rank) ==
    [shape |-> "dict", keys |-> {"tokens", "rank"}, tokens |-> tokens, rank |-> rank]
PairsPayload(keys, pairs, tokens) ==
    [shape |-> "dict", keys |-> keys, tokens |-> tokens, rank |-> <<>>, pairs |-> pairs]

\* every batch under the first key, and one record under each other shape
ShapesOf(menu) ==
    LET r == CHOOSE x \in menu : x.address = Str(1)
        q == CHOOSE x \in menu : x.address = Str(2)
    IN {DictTokens(b) : b \in Batches(menu)}
       \cup { DictRank(<<r>>), BothKeys(<<>>, <<r>>), BothKeys(<<q>>, <<r>>),
              BareList(<<r>>), ErrorMarker, EmptyJson, NoPayload, DictTokens(<<NotADict>>) }

PairShapes ==
    LET r == CHOOSE x \in EarlyGemRecords : x.address = Str(1)
        q == CHOOSE x \in EarlyGemRecords : x.address = Str(2)
    IN {PairsPayload({"pairs"}, b, <<>>) : b \in Batches(EarlyGemRecords)}
       \cup { DictTokens(<<r>>), PairsPayload({"pairs", "tokens"}, <<>>, <<r>>),
              PairsPayload({"pairs", "tokens"}, <<q>>, <<r>>),
              BareList(<<r>>), ErrorMarker, EmptyJson, NoPayload }

\* the thresholds of a call; the first of each is the default
GraduationParams == {<<95, 100, 50>>, <<90, 100, 50>>}
EarlyGemParams == {<<5000, 60>>, <<0, 120>>}
MomentumParams == {<<20, 10>>, <<10, 0>>}

Calling(detector, params) ==
    [pc |-> "calling", detector |-> detector, params |-> params, data |-> NoPayload,
     out |-> <<>>]

Ended(result, data) ==
    IF result.ok THEN [sig EXCEPT !.pc = "returned", !.data = data, !.out = result.out]
    ELSE [sig EXCEPT !.pc = "raised", !.data = data]

\* lines 25-73: the completion list is fetched and scanned
GraduationCall ==
    /\ sig.pc = "calling" /\ sig.detector = "pump_graduation"
    /\ \E data \in ShapesOf(GraduationRecords) :
          sig' = Ended(get_pump_graduation_signals(data, sig.params[1], sig.params[2],
                                                   sig.params[3]), data)
    /\ UNCHANGED <<now, cache, task, upstream, lastStore, agg, lock, thr, hist, deep, sc, answers, ai>>

\* lines 92-140: the new pairs are fetched and scanned
EarlyGemCall ==
    /\ sig.pc = "calling" /\ sig.detector = "early_gem"
    /\ \E data \in PairShapes :
          sig' = Ended(get_early_gem_signals(data, sig.params[1], sig.params[2], now), data)
    /\ UNCHANGED <<now, cache, task, upstream, lastStore, agg, lock, thr, hist, deep, sc, answers, ai>>

\* lines 25, 92: the upstream call of the detector raises
UpstreamRaises ==
    /\ sig.pc = "calling" /\ sig.detector \in {"pump_graduation", "early_gem"}
    /\ sig' = [sig EXCEPT !.pc = "raised"]
    /\ UNCHANGED <<now, cache, task, upstream, lastStore, agg, lock, thr, hist, deep, sc, answers, ai>>

\* lines 154-205: the 1h trending lookup has ended and its list is scanned
MomentumJoin ==
    /\ sig.pc = "calling" /\ sig.detector = "momentum_breakout"
    /\ task[1].pc \in {"returned", "raised"}
    /\ IF task[1].pc = "raised" THEN sig' = [sig EXCEPT !.pc = "raised"]
       ELSE sig' = Ended(get_momentum_signals(task[1].result, sig.params[1], sig.params[2]),
                         task[1].result)
    /\ UNCHANGED <<now, cache, task, upstream, lastStore, agg, lock, thr, hist, deep, sc, answers, ai>>

InitSignals ==
    /\ now = SigTime
    /\ cache = EmptyCache
    /\ upstream = [k \in AllKeys |-> <<>>]
    /\ lastStore = [k \in AllKeys |-> NoStore]
    /\ agg = NoAgg
    /\ lock = 0
    /\ thr = <<>>
    /\ hist = NoHist
    /\ deep = NoDeep
    /\ sc = NoScore
    /\ ai = NoAi
    /\ \/ /\ task = <<>>
          /\ answers = {}
          /\ \/ \E p \in GraduationParams : sig = Calling("pump_graduation", p)
             \/ \E p \in EarlyGemParams : sig = Calling("early_gem", p)
       \/ /\ task = <<IdleTask("1h", "sol")>>
          /\ answers = ShapesOf(MomentumRecords)
          /\ \E p \in MomentumParams : sig = Calling("momentum_breakout", p)

NextSignals ==
    \/ GraduationCall
    \/ EarlyGemCall
    \/ UpstreamRaises
    \/ \E t \in DOMAIN task : FetchBegin(t)
    \/ \E t \in DOMAIN task : FetchReturn(t)
    \/ \E t \in DOMAIN task : FetchRaise(t)
    \/ MomentumJoin

SpecSignals == InitSignals /\ [][NextSignals]_vars

SigReturned(detector) == sig.pc = "returned" /\ sig.detector = detector

\* the addresses of the emitted signals, in order
RECURSIVE AddressesOf(_)
AddressesOf(signals) ==
    IF signals = <<>> THEN <<>>
    ELSE <<Head(signals).address>> \o AddressesOf(Tail(signals))

\* a value that stands for a number: a number or a string holding one
IsNumeric(x) == x.t \in {"num", "numstr", "decstr"}
\* a value that stands for a whole number
IsWhole(x) == x.t \in {"num", "numstr"}

(***************************************************************************)
(* Claim C15: get_pump_graduation_signals emits a token iff its progress   *)
(* is present and numeric, progress_pct (raw x 100 when raw <= 1.0, else   *)
(* raw) lies in min_progress..max_progress and holder_count >= min_holders;*)
(* the emitted progress_pct is that value rounded to 2 decimals.           *)
(***************************************************************************)
\* progress_pct in 1/1000 of a percent
ProgressPct(token) ==
    IF token.progress.v <= ProgressUnit THEN token.progress.v * 100 ELSE token.progress.v

GraduationKeeps(token) ==
    /\ "progress" \in DOMAIN token
    /\ IsNumeric(token.progress)
    /\ sig.params[1] * ProgressUnit <= ProgressPct(token)
    /\ ProgressPct(token) <= sig.params[2] * ProgressUnit
    /\ "holder_count" \in DOMAIN token
    /\ IsWhole(token.holder_count)
    /\ token.holder_count.v >= sig.params[3]

C15_GraduationFilter ==
    SigReturned("pump_graduation") =>
        LET kept == SelectSeq(CompletionTokens(sig.data), GraduationKeeps)
        IN /\ Len(sig.out) = Len(kept)
           /\ \A i \in DOMAIN kept :
                 /\ sig.out[i].address = kept[i].address
                 \* within half a hundredth of the unrounded value
                 /\ 2 * (sig.out[i].progress_pct * 10 - ProgressPct(kept[i])) \in -10..10
                 /\ sig.out[i].holder_count = kept[i].holder_count.v

\* the defaults 95..100 and 50 holders: "0.96" with 100 holders passes as 96.0,
\* "0.50" is excluded, 10 holders are excluded at "0.99"
C15_Witness ==
    /\ SigReturned("pump_graduation")
    /\ sig.params = <<95, 100, 50>>
    /\ AddressesOf(CompletionTokens(sig.data)) = <<Str(1), Str(2), Str(3)>>
    /\ Len(sig.out) = 1
    /\ sig.out[1].address = Str(1)
    /\ sig.out[1].progress_pct = 9600

(***************************************************************************)
(* Claim C16: get_early_gem_signals emits a pair iff a timestamp           *)
(* (open_timestamp, else creation_timestamp) is present and numeric,       *)
(* age_minutes = (now - timestamp) / 60 <= max_age_minutes and liquidity   *)
(* >= min_liquidity.                                                       *)
(***************************************************************************)
TimestampOf(pair) ==
    IF "open_timestamp" \in DOMAIN pair /\ Truthy(pair.open_timestamp)
    THEN pair.open_timestamp
    ELSE Get(pair, "creation_timestamp")

LiquidityAtLeast(pair, min_liquidity) ==
    IF "liquidity" \notin DOMAIN pair THEN 0 >= min_liquidity
    ELSE \/ pair.liquidity = Inf
         \/ IsNumeric(pair.liquidity) /\ pair.liquidity.v >= min_liquidity

EarlyGemKeeps(pair) ==
    /\ Truthy(TimestampOf(pair))
    /\ IsWhole(TimestampOf(pair))
    /\ now - TimestampOf(pair).v <= sig.params[2] * 60
    /\ LiquidityAtLeast(pair, sig.params[1])

C16_EarlyGemFilter ==
    SigReturned("early_gem") =>
        LET kept == SelectSeq(PairsOf(sig.data), EarlyGemKeeps)
        IN /\ Len(sig.out) = Len(kept)
           /\ \A i \in DOMAIN kept :
                 /\ sig.out[i].address = kept[i].address
                 \* within half a tenth of a minute of the age
                 /\ 2 * (sig.out[i].age_minutes * 60 - (now - TimestampOf(kept[i]).v) * 10)
                       \in -60..60

\* min_liquidity 5000 and max_age 60: the pair aged 10 minutes with liquidity 10000
\* passes, liquidity 100 is excluded, 120 minutes are excluded at liquidity 50000
C16_Witness ==
    /\ SigReturned("early_gem")
    /\ sig.params = <<5000, 60>>
    /\ AddressesOf(PairsOf(sig.data)) = <<Str(1), Str(2), Str(3)>>
    /\ Len(sig.out) = 1
    /\ sig.out[1].address = Str(1)
    /\ sig.out[1].age_minutes = 100

(***************************************************************************)
(* Claim C17: get_momentum_signals emits a token of the 1h list iff        *)
(* market_cap > 0, volume / market_cap >= min_vol_mcap_ratio and           *)
(* price_change_percent >= min_price_change_1h; the list is returned in    *)
(* non-increasing order of turnover_ratio.                                 *)
(***************************************************************************)
\* float(x or 0) of a field, where it is a finite number
FiniteField(token, k) ==
    IF Truthy(Get(token, k)) THEN Get(token, k).v ELSE 0

CastsFinite(token, k) == ~Truthy(Get(token, k)) \/ IsNumeric(Get(token, k))

MomentumKeeps(token) ==
    /\ CastsFinite(token, "volume")
    /\ CastsFinite(token, "price_change_percent")
    /\ FiniteField(token, "price_change_percent") >= sig.params[2]
    /\ \/ /\ Get(token, "market_cap") = Inf
          /\ 0 >= sig.params[1]
       \/ /\ CastsFinite(token, "market_cap")
          /\ FiniteField(token, "market_cap") > 0
          /\ FiniteField(token, "volume") * RatioUnit
                >= sig.params[1] * FiniteField(token, "market_cap")

Count(seq, a) == Cardinality({i \in DOMAIN seq : seq[i].address = a})

C17_MomentumFilterAndOrder ==
    SigReturned("momentum_breakout") =>
        LET kept == SelectSeq(MomentumTokens(sig.data), MomentumKeeps)
        IN /\ Len(sig.out) = Len(kept)
           /\ \A i \in DOMAIN kept : Count(sig.out, kept[i].address) = Count(kept, kept[i].address)
           /\ \A i \in DOMAIN sig.out :
                 \E k \in DOMAIN kept :
                    /\ kept[k].address = sig.out[i].address
                    \* turnover_ratio within half a hundredth of volume / market_cap
                    /\ 2 * (sig.out[i].turnover_ratio * FiniteField(kept[k], "market_cap")
                            - FiniteField(kept[k], "volume") * 100)
                          \in -FiniteField(kept[k], "market_cap")
                              ..FiniteField(kept[k], "market_cap")
           /\ \A i \in 1..(Len(sig.out) - 1) :
                 sig.out[i].turnover_ratio >= sig.out[i + 1].turnover_ratio

\* ratios 0.30, 0.50 and 0.19 in list order, at the defaults 0.2 and 10: the
\* third is excluded and the second comes out first
C17_Witness ==
    /\ SigReturned("momentum_breakout")
    /\ sig.params = <<20, 10>>
    /\ AddressesOf(MomentumTokens(sig.data)) = <<Str(1), Str(2), Str(5)>>
    /\ AddressesOf(sig.out) = <<Str(2), Str(1)>>
    /\ sig.out[1].turnover_ratio = 50
    /\ sig.out[2].turnover_ratio = 30

(***************************************************************************)
(* Claim C18: in each detector a record whose numeric cast fails is        *)
(* skipped and every other record is still evaluated: the detector does    *)
(* not raise, and its output is its output on the batch without the bad    *)
(* records.                                                                *)
(***************************************************************************)
\* the records the detector scans
ScannedRecords ==
    CASE sig.detector = "pump_graduation" -> CompletionTokens(sig.data)
      [] sig.detector = "early_gem" -> PairsOf(sig.data)
      [] sig.detector = "momentum_breakout" -> MomentumTokens(sig.data)

\* one of the record's numeric casts fails
CastFails(record) ==
    CASE sig.detector = "pump_graduation" ->
            \/ ~IsNone(Get(record, "progress")) /\ FloatOf(Get(record, "progress")).st # "ok"
            \/ IntOf(Or0(Get(record, "holder_count"))).st # "ok"
      [] sig.detector = "early_gem" ->
            \/ Truthy(TimestampOf(record)) /\ IntOf(TimestampOf(record)).st # "ok"
            \/ FloatOf(Or0(Get(record, "liquidity"))).st # "ok"
      [] sig.detector = "momentum_breakout" ->
            \E k \in {"market_cap", "volume", "price_change_percent"} :
               FloatOf(Or0(Get(record, k))).st # "ok"

CastsWell(record) == ~CastFails(record)

\* the detector's output on the given records
OutputOn(records) ==
    CASE sig.detector = "pump_graduation" ->
            get_pump_graduation_signals(DictTokens(records), sig.params[1], sig.params[2],
                                        sig.params[3])
      [] sig.detector = "early_gem" ->
            get_early_gem_signals(PairsPayload({"pairs"}, records, <<>>), sig.params[1],
                                  sig.params[2], now)
      [] sig.detector = "momentum_breakout" ->
            get_momentum_signals(DictTokens(records), sig.params[1], sig.params[2])

\* the upstream call returned a payload whose records are mappings
ScannedBatch ==
    /\ sig.pc \in {"returned", "raised"}
    /\ ~(sig.pc = "raised" /\ sig.data = NoPayload)
    /\ \A i \in DOMAIN ScannedRecords : IsMapping(ScannedRecords[i])

C18_BadRecordsSkipped ==
    ScannedBatch =>
        /\ sig.pc = "returned"
        /\ OutputOn(SelectSeq(ScannedRecords, CastsWell)).ok
        /\ sig.out = OutputOn(SelectSeq(ScannedRecords, CastsWell)).out

\* what holds: the casts that fail with ValueError or TypeError are skipped
C18_ValueErrorsSkipped ==
    (/\ ScannedBatch
     /\ \A i \in DOMAIN ScannedRecords :
           \A k \in DOMAIN ScannedRecords[i] : ScannedRecords[i][k] # Inf)
    => /\ sig.pc = "returned"
       /\ sig.out = OutputOn(SelectSeq(ScannedRecords, CastsWell)).out

(***************************************************************************)
(* SpecFetch: concurrent requests through get_trending_data_with_cache     *)
(* (the aggregator, the momentum detector and the deep analysis all call   *)
(* it), with time passing                                                  *)
(***************************************************************************)
NumRequests == 2
Requests == 1 .. NumRequests
FetchTimeframes == {"1h", "5m"}

InitFetch ==
    /\ now = 0
    /\ cache = EmptyCache
    /\ \E tfs \in [Requests -> FetchTimeframes] :
          task = [r \in Requests |-> IdleTask(tfs[r], "sol")]
    /\ upstream = [k \in AllKeys |-> <<>>]
    /\ lastStore = [k \in AllKeys |-> NoStore]
    /\ agg = NoAgg
    /\ lock = 0
    /\ thr = <<>>
    /\ hist = NoHist
    /\ deep = NoDeep
    /\ sc = NoScore
    /\ answers = {ErrorMarker, EmptyJson, DictTokens(<<Tok(1, 10, 10)>>)}
    /\ sig = NoSig
    /\ ai = NoAi

NextFetch ==
    \/ \E t \in DOMAIN task : FetchBegin(t)
    \/ \E t \in DOMAIN task : FetchReturn(t)
    \/ \E t \in DOMAIN task : FetchRaise(t)
    \/ Tick

SpecFetch == InitFetch /\ [][NextFetch]_vars

(***************************************************************************)
(* Claim C4 (as stated): per key, at most one upstream get_trending_tokens *)
(* call per freshness window, also for requests in flight concurrently:    *)
(* any two upstream calls for one key are at least ttl apart.              *)
(***************************************************************************)
C4_AtMostOneCallPerWindow ==
    \A k \in AllKeys : \A i, j \in DOMAIN upstream[k] :
        i < j => upstream[k][j] - upstream[k][i] >= ttl

(***************************************************************************)
(* Claim C4 (amended): a request that starts after the latest completed    *)
(* fetch for its key stored a non-empty payload, and before that entry     *)
(* expires, makes no upstream call and returns the stored payload.         *)
(***************************************************************************)
C4_FreshStoreDedupes ==
    \A t \in DOMAIN task :
        (/\ task[t].pc # "idle"
         /\ task[t].seen.by # 0
         /\ task[t].seen.truthy
         /\ task[t].began < task[t].seen.at + ttl)
        => /\ ~task[t].called
           /\ task[t].pc = "returned"
           /\ task[t].result = task[task[t].seen.by].result

\* a request served from the cache after another request's store
C4_Witness ==
    \E t \in DOMAIN task :
        /\ task[t].pc = "returned"
        /\ ~task[t].called
        /\ task[t].seen.by # 0
        /\ task[t].seen.by # t
        /\ task[t].began > task[t].seen.at

(***************************************************************************)
(* SpecCache: threads calling get_cached / set_cached / clear_cache.       *)
(* Each call takes _cache_lock, runs the TTLCache operation in its steps   *)
(* and releases the lock.  The timer is read once per operation.           *)
(***************************************************************************)
Threads == {1, 2}
MaxOps == 4
CacheKeys == {CacheKey("1m", "sol"), CacheKey("5m", "sol"), CacheKey("1h", "sol")}
CacheValues == {ErrorMarker, DictTokens(<<Tok(1, 10, 10)>>)}

\* get_cached raised KeyError instead of returning
RaisedKeyError == [shape |-> "KeyError", keys |-> {}, tokens |-> <<>>, rank |-> <<>>]

NotHeld == [held |-> FALSE, val |-> NoPayload, at |-> 0]

IdleThread == [pc |-> "idle", op |-> "none", key |-> CacheKey("1m", "sol"),
               val |-> NoPayload, time |-> 0, found |-> FALSE,
               last |-> "none", ret |-> NoPayload, expect |-> NoPayload, sawWhole |-> TRUE]

\* every entry has its value and its link
Whole(c) == DOMAIN c.data = DOMAIN c.expires /\ Range(c.order) = DOMAIN c.expires

\* what a linearizable store answers: the latest set that is still held
AbstractGet(h, key, time) ==
    IF h[key].held /\ time < h[key].at + ttl THEN h[key].val ELSE NoPayload

\* `with _cache_lock` with the lock left out
LockBypassed == TRUE

\* `with _cache_lock`: entry waits until no thread holds the lock
LockFree == lock = 0

\* a thread calls one of the three functions and enters its critical section
Acquire(t) ==
    /\ thr[t].pc = "idle"
    /\ hist.ops < MaxOps
    /\ LockFree
    /\ lock' = t
    /\ hist' = [hist EXCEPT !.ops = @ + 1]
    /\ \E op \in {"get", "set", "clear"}, key \in CacheKeys, val \in CacheValues :
          /\ op # "set" => val = ErrorMarker
          /\ op = "clear" => key = CacheKey("1m", "sol")
          /\ thr' = [thr EXCEPT ![t] = [IdleThread EXCEPT !.pc = "locked", !.op = op,
                                          !.key = key, !.val = val, !.time = now,
                                          !.sawWhole = Whole(cache)]]
    /\ UNCHANGED <<now, cache, task, upstream, lastStore, agg, deep, sc, answers, sig, ai>>

\* Cache.get: `key in self`
GetContains(t) ==
    /\ thr[t].pc = "locked" /\ thr[t].op = "get"
    /\ thr' = [thr EXCEPT ![t].pc = "mid",
                          ![t].found = Contains(cache, thr[t].key, thr[t].time)]
    /\ UNCHANGED <<now, cache, task, upstream, lastStore, agg, lock, hist, deep, sc, answers, sig, ai>>

\* Cache.get: `self[key]`, or the default None; the lock is released
GetReturn(t) ==
    /\ thr[t].pc = "mid" /\ thr[t].op = "get"
    /\ LET key == thr[t].key
           held == key \in DOMAIN cache.data /\ key \in DOMAIN cache.expires
           got == IF ~thr[t].found THEN [val |-> NoPayload, cache |-> cache]
                  ELSE IF held THEN GetItem(cache, key)
                  ELSE [val |-> RaisedKeyError, cache |-> cache]
       IN /\ cache' = got.cache
          /\ thr' = [thr EXCEPT ![t] = [IdleThread EXCEPT !.last = "get",
                                          !.ret = got.val,
                                          !.expect = AbstractGet(hist.map, key, thr[t].time),
                                          !.sawWhole = thr[t].sawWhole]]
    /\ lock' = 0
    /\ UNCHANGED <<now, task, upstream, lastStore, agg, hist, deep, sc, answers, sig, ai>>

\* TTLCache.__setitem__: expire, evict if full, store the value
SetStore(t) ==
    /\ thr[t].pc = "locked" /\ thr[t].op = "set"
    /\ cache' = SetData(cache, thr[t].key, thr[t].val, thr[t].time)
    /\ hist' = [hist EXCEPT !.map = [k \in DOMAIN hist.map |->
                  IF k # thr[t].key /\ k \notin DOMAIN cache'.data
                  THEN NotHeld ELSE hist.map[k]]]
    /\ thr' = [thr EXCEPT ![t].pc = "mid"]
    /\ UNCHANGED <<now, task, upstream, lastStore, agg, lock, deep, sc, answers, sig, ai>>

\* TTLCache.__setitem__: the link with the expiry; the lock is released
SetCommit(t) ==
    /\ thr[t].pc = "mid" /\ thr[t].op = "set"
    /\ cache' = SetLink(cache, thr[t].key, thr[t].time)
    /\ hist' = [hist EXCEPT !.map[thr[t].key] =
                   [held |-> TRUE, val |-> thr[t].val, at |-> thr[t].time]]
    /\ thr' = [thr EXCEPT ![t] = [IdleThread EXCEPT !.last = "set",
                                    !.sawWhole = thr[t].sawWhole]]
    /\ lock' = 0
    /\ UNCHANGED <<now, task, upstream, lastStore, agg, deep, sc, answers, sig, ai>>

\* MutableMapping.clear: popitem until the cache is empty
ClearPop(t) ==
    /\ thr[t].pc = "locked" /\ thr[t].op = "clear"
    /\ LET e == Expire(cache, thr[t].time)
       IN IF e.order # <<>>
          THEN /\ cache' = PopItem(e)
               /\ thr' = thr
          ELSE /\ cache' = e
               /\ thr' = [thr EXCEPT ![t].pc = "mid"]
    /\ UNCHANGED <<now, task, upstream, lastStore, agg, lock, hist, deep, sc, answers, sig, ai>>

\* clear_cache returns; the lock is released
ClearCommit(t) ==
    /\ thr[t].pc = "mid" /\ thr[t].op = "clear"
    /\ hist' = [hist EXCEPT !.map = [k \in DOMAIN hist.map |-> NotHeld]]
    /\ thr' = [thr EXCEPT ![t] = [IdleThread EXCEPT !.last = "clear",
                                    !.sawWhole = thr[t].sawWhole]]
    /\ lock' = 0
    /\ UNCHANGED <<now, cache, task, upstream, lastStore, agg, deep, sc, answers, sig, ai>>

InitCache ==
    /\ now = 0
    /\ cache = EmptyCache
    /\ task = <<>>
    /\ upstream = [k \in AllKeys |-> <<>>]
    /\ lastStore = [k \in AllKeys |-> NoStore]
    /\ agg = NoAgg
    /\ lock = 0
    /\ thr = [t \in Threads |-> IdleThread]
    /\ hist = [map |-> [k \in CacheKeys |-> NotHeld], ops |-> 0]
    /\ deep = NoDeep
    /\ sc = NoScore
    /\ answers = {}
    /\ sig = NoSig
    /\ ai = NoAi

NextCache ==
    \/ \E t \in Threads : Acquire(t)
    \/ \E t \in Threads : GetContains(t)
    \/ \E t \in Threads : GetReturn(t)
    \/ \E t \in Threads : SetStore(t)
    \/ \E t \in Threads : SetCommit(t)
    \/ \E t \in Threads : ClearPop(t)
    \/ \E t \in Threads : ClearCommit(t)
    \/ Tick

SpecCache == InitCache /\ [][NextCache]_vars

(***************************************************************************)
(* Claim C5: the cache is a linearizable key-value store under its lock:   *)
(* every completed get_cached returned what the latest preceding           *)
(* set_cached of its key stored, unless that entry was cleared, expired or *)
(* evicted, and then None; and every operation found the cache whole (no   *)
(* entry half written) when it entered.                                    *)
(***************************************************************************)
C5_Linearizable ==
    \A t \in Threads :
        /\ thr[t].sawWhole
        /\ thr[t].last = "get" => thr[t].ret = thr[t].expect

\* a get_cached that returned a stored value while another key had been evicted
\* by capacity, after both threads had run operations
C5_Witness ==
    \E t, u \in Threads :
        /\ t # u
        /\ thr[t].last = "get" /\ thr[t].ret \in CacheValues
        /\ thr[u].pc # "idle"
        /\ \E k \in CacheKeys : ~hist.map[k].held /\ k \notin DOMAIN cache.data
        /\ Cardinality(DOMAIN cache.data) = maxsize

(***************************************************************************)
(* Claims about analyze_trending_tokens, under SpecAgg                     *)
(***************************************************************************)
Joined == agg.pc \in {"returned", "raised"}

RECURSIVE SucceededRows(_)
\* the observations of the timeframes whose fetch returned, from index i on
SucceededRows(i) ==
    IF i > Len(Timeframes) THEN <<>>
    ELSE (IF task[i].pc = "returned"
          THEN RowsOf(Timeframes[i], TokensOf(task[i].result).toks) ELSE <<>>)
         \o SucceededRows(i + 1)

ObservedAddresses == {agg.data[i].address : i \in DOMAIN agg.data} \ {None}
OutAddresses == {agg.out[i].address : i \in DOMAIN agg.out}

\* the observations of one address
Obs(a) == {i \in DOMAIN agg.data : agg.data[i].address = a}

(***************************************************************************)
(* Claim C1: whichever of the five fetches raise, analyze_trending_tokens  *)
(* returns normally, and its result is the aggregation of exactly the      *)
(* observations of the timeframes whose fetch returned.                    *)
(***************************************************************************)
C1_FailuresIsolated ==
    Joined =>
        /\ agg.pc = "returned"
        /\ agg.data = SucceededRows(1)
        /\ agg.out = Aggregate(SucceededRows(1), agg.min_consistency,
                               agg.volume_threshold, agg.market_cap_threshold)

\* a call that returned groups although some fetch raised after a sibling had
\* returned tokens and another raised before
C1_Witness ==
    /\ agg.pc = "returned"
    /\ agg.out # <<>>
    /\ \E i, j \in DOMAIN task : i < j /\ task[i].pc = "raised" /\ task[j].pc = "returned"
    /\ \E i, j \in DOMAIN task : i < j /\ task[i].pc = "returned" /\ task[j].pc = "raised"

(***************************************************************************)
(* Claim C6: consistency_count of every output entry is the number of      *)
(* distinct timeframes with an observation of its address (once per        *)
(* timeframe, however often it is listed there), between 1 and 5.          *)
(***************************************************************************)
C6_ConsistencyCount ==
    agg.pc = "returned" =>
        \A i \in DOMAIN agg.out :
            LET g == agg.out[i]
            IN /\ g.consistency_count =
                    Cardinality({tf \in Range(Timeframes) :
                        \E r \in Obs(g.address) : agg.data[r].timeframe = tf})
               /\ g.consistency_count >= 1
               /\ g.consistency_count <= 5

\* an address listed twice in one timeframe and present in all five
C6_Witness ==
    /\ agg.pc = "returned"
    /\ \E i \in DOMAIN agg.out :
          /\ agg.out[i].consistency_count = 5
          /\ Cardinality(Obs(agg.out[i].address)) > 5

(***************************************************************************)
(* Claim C7: an observed address is in the output iff its group meets all  *)
(* three thresholds; with the three thresholds zero every observed address *)
(* is returned.  Each address appears at most once.                        *)
(***************************************************************************)
C7_FilterPredicate ==
    agg.pc = "returned" =>
        /\ OutAddresses \subseteq ObservedAddresses
        /\ \A a \in ObservedAddresses :
              LET g == GroupOf(agg.data, a)
              IN (a \in OutAddresses) <=>
                    /\ g.consistency_count >= agg.min_consistency
                    /\ g.avg_volume >= agg.volume_threshold * Scale
                    /\ g.median_market_cap >= agg.market_cap_threshold * Scale
        /\ (agg.min_consistency = 0 /\ agg.volume_threshold = 0
               /\ agg.market_cap_threshold = 0) => OutAddresses = ObservedAddresses
        /\ \A i, j \in DOMAIN agg.out : agg.out[i].address = agg.out[j].address => i = j

\* one address kept while another is dropped for its average volume alone
C7_Witness ==
    /\ agg.pc = "returned"
    /\ agg.out # <<>>
    /\ \E a \in ObservedAddresses \ OutAddresses :
          LET g == GroupOf(agg.data, a)
          IN /\ g.consistency_count >= agg.min_consistency
             /\ g.median_market_cap >= agg.market_cap_threshold * Scale
             /\ g.avg_volume < agg.volume_threshold * Scale

(***************************************************************************)
(* Claim C8: the output is in descending order of consistency_count, and   *)
(* of avg_volume among equal consistency_count.                            *)
(***************************************************************************)
C8_Sorted ==
    agg.pc = "returned" =>
        \A i \in DOMAIN agg.out : \A j \in DOMAIN agg.out :
            j = i + 1 =>
                \/ agg.out[i].consistency_count > agg.out[j].consistency_count
                \/ /\ agg.out[i].consistency_count = agg.out[j].consistency_count
                   /\ agg.out[i].avg_volume >= agg.out[j].avg_volume

\* two entries of equal consistency_count, the greater address first for its
\* greater average volume
C8_Witness ==
    /\ agg.pc = "returned"
    /\ Len(agg.out) = 2
    /\ agg.out[1].consistency_count = agg.out[2].consistency_count
    /\ agg.out[1].avg_volume > agg.out[2].avg_volume
    /\ agg.out[1].address.v > agg.out[2].address.v

(***************************************************************************)
(* Claim C9: avg_volume is the arithmetic mean of the volumes of all       *)
(* observations of the address; median_market_cap is the median of their   *)
(* market caps: at most half of them lie below it, at most half above, and *)
(* it is the middle value or the mean of the two middle values.            *)
(***************************************************************************)
C9_MeanAndMedian ==
    agg.pc = "returned" =>
        \A i \in DOMAIN agg.out :
            LET g == agg.out[i]
                obs == Obs(g.address)
                n == Cardinality(obs)
                caps == {agg.data[r].market_cap : r \in obs}
                below == {r \in obs : agg.data[r].market_cap * Scale < g.median_market_cap}
                above == {r \in obs : agg.data[r].market_cap * Scale > g.median_market_cap}
                lo == CHOOSE c \in caps : /\ c * Scale <= g.median_market_cap
                                          /\ \A d \in caps : d * Scale <= g.median_market_cap => d <= c
                hi == CHOOSE c \in caps : /\ c * Scale >= g.median_market_cap
                                          /\ \A d \in caps : d * Scale >= g.median_market_cap => c <= d
            IN /\ g.avg_volume * n = SumSeq(Column(RowsFor(agg.data, g.address), "volume")) * Scale
               /\ 2 * Cardinality(below) <= n
               /\ 2 * Cardinality(above) <= n
               /\ \E c \in caps : c * Scale <= g.median_market_cap
               /\ \E c \in caps : c * Scale >= g.median_market_cap
               /\ 2 * g.median_market_cap = (lo + hi) * Scale

\* an entry whose median market cap differs from the mean of its market caps
C9_Witness ==
    /\ agg.pc = "returned"
    /\ \E i \in DOMAIN agg.out :
          LET rows == RowsFor(agg.data, agg.out[i].address)
          IN /\ Len(rows) >= 3
             /\ agg.out[i].median_market_cap * Len(rows)
                   # SumSeq(Column(rows, "market_cap")) * Scale

(***************************************************************************)
(* SpecShapes: analyze_trending_tokens where the trending endpoint answers *)
(* with each payload shape                                                 *)
(***************************************************************************)
ShapeResponses ==
    { ErrorMarker,
      DictTokens(<<Tok(1, 30, 40)>>),
      DictRank(<<Tok(1, 20, 30)>>),
      BareList(<<Tok(2, 10, 40)>>) }

InitShapes ==
    /\ now = 0
    /\ cache = EmptyCache
    /\ task = [i \in DOMAIN Timeframes |-> IdleTask(Timeframes[i], "sol")]
    /\ upstream = [k \in AllKeys |-> <<>>]
    /\ lastStore = [k \in AllKeys |-> NoStore]
    /\ agg = [pc |-> "gathering", min_consistency |-> 0, volume_threshold |-> 0,
              market_cap_threshold |-> 0, data |-> <<>>, out |-> <<>>]
    /\ lock = 0
    /\ thr = <<>>
    /\ hist = NoHist
    /\ deep = NoDeep
    /\ sc = NoScore
    /\ answers = ShapeResponses
    /\ sig = NoSig
    /\ ai = NoAi

SpecShapes == InitShapes /\ [][NextAgg]_vars

(***************************************************************************)
(* Claim C19: every consumer of a raw payload turns any payload shape (a   *)
(* dict holding the list under a known key, a bare list, an error marker)  *)
(* into the token list or an empty list without raising; in the aggregator *)
(* such a timeframe adds no observations and leaves the others intact.     *)
(***************************************************************************)
RECURSIVE DictRows(_)
\* the observations of the timeframes that answered a dict, from index i on
DictRows(i) ==
    IF i > Len(Timeframes) THEN <<>>
    ELSE (IF task[i].pc = "returned" /\ task[i].result.shape = "dict"
          THEN RowsOf(Timeframes[i], TokensOf(task[i].result).toks) ELSE <<>>)
         \o DictRows(i + 1)

C19_ShapesTolerated ==
    Joined =>
        /\ agg.pc = "returned"
        /\ agg.data = DictRows(1)

\* the aggregator raised although every fetch returned: one answered a bare list
C19_BareListRaises ==
    /\ agg.pc = "raised"
    /\ \A i \in DOMAIN task : task[i].pc = "returned"
    /\ \E i \in DOMAIN task : task[i].result.shape = "list"

(***************************************************************************)
(* Claim C20: the container keys of a dict payload are tried in a fixed    *)
(* order (tokens before rank; pairs before tokens for new pairs) and the   *)
(* first key that is present wins, an empty list included.                 *)
(***************************************************************************)
Priority ==
    IF sig.detector = "early_gem" THEN <<"pairs", "tokens">> ELSE <<"tokens", "rank">>

Holds(data, k) == k \in data.keys

RECURSIVE FirstPresent(_, _)
\* the list under the first key the payload holds
FirstPresent(data, keys) ==
    IF keys = <<>> THEN <<>>
    ELSE IF Holds(data, Head(keys)) THEN data[Head(keys)]
    ELSE FirstPresent(data, Tail(keys))

RECURSIVE FirstNonEmpty(_, _)
\* the list under the first key that holds a non-empty list
FirstNonEmpty(data, keys) ==
    IF keys = <<>> THEN <<>>
    ELSE IF Holds(data, Head(keys)) /\ data[Head(keys)] # <<>> THEN data[Head(keys)]
    ELSE FirstNonEmpty(data, Tail(keys))

DictScanned == ScannedBatch /\ sig.pc = "returned" /\ sig.data.shape = "dict"

C20_FirstPresentKeyWins ==
    DictScanned =>
        /\ ScannedRecords = FirstPresent(sig.data, Priority)
        /\ sig.out = OutputOn(FirstPresent(sig.data, Priority)).out

\* Amended: the first key that holds a non-empty list wins; a key that is absent
\* or holds an empty list is passed over
C20_FirstNonEmptyKeyWins ==
    DictScanned =>
        /\ ScannedRecords = FirstNonEmpty(sig.data, Priority)
        /\ sig.out = OutputOn(FirstNonEmpty(sig.data, Priority)).out

\* the higher key holds an empty list and the signal comes from the lower key
C20_Witness ==
    /\ DictScanned
    /\ Holds(sig.data, Priority[1]) /\ sig.data[Priority[1]] = <<>>
    /\ Holds(sig.data, Priority[2]) /\ sig.data[Priority[2]] # <<>>
    /\ Len(sig.out) = 1
    /\ sig.out[1].address = Str(1)

(***************************************************************************)
(* SpecCasts: analyze_trending_tokens where a token's numeric field is a   *)
(* number, a numeric string, absent, or a string that is no number         *)
(***************************************************************************)
CastResponses ==
    { DictTokens(<<Tok(1, 30, 40)>>),
      DictTokens(<<[address |-> Str(1), volume |-> NumStr(20), market_cap |-> Num(40)]>>),
      DictTokens(<<[address |-> Str(1), market_cap |-> Num(40)]>>),
      DictTokens(<<[address |-> Str(1), volume |-> Str(9), market_cap |-> Num(40)],
                   Tok(2, 10, 40)>>) }

InitCasts ==
    /\ now = 0
    /\ cache = EmptyCache
    /\ task = [i \in DOMAIN Timeframes |-> IdleTask(Timeframes[i], "sol")]
    /\ upstream = [k \in AllKeys |-> <<>>]
    /\ lastStore = [k \in AllKeys |-> NoStore]
    /\ agg = [pc |-> "gathering", min_consistency |-> 0, volume_threshold |-> 0,
              market_cap_threshold |-> 0, data |-> <<>>, out |-> <<>>]
    /\ lock = 0
    /\ thr = <<>>
    /\ hist = NoHist
    /\ deep = NoDeep
    /\ sc = NoScore
    /\ answers = CastResponses
    /\ sig = NoSig
    /\ ai = NoAi

SpecCasts == InitCasts /\ [][NextAgg]_vars

(***************************************************************************)
(* Claim C21: a token whose price, volume, market_cap or                   *)
(* price_change_percent is absent or is an invalid numeric string is kept  *)
(* as an observation with that field taken as 0, and the observation       *)
(* counts toward its address's consistency_count.                          *)
(***************************************************************************)
\* the cast as the claim has it: a number or numeric string gives its value,
\* anything else gives 0
SoftFloat(x) == IF x.t \in {"num", "bool", "numstr"} THEN x.v ELSE 0

SoftRow(tf, token) ==
    [address |-> Get(token, "address"), timeframe |-> tf,
     price |-> SoftFloat(Get(token, "price")),
     volume |-> SoftFloat(Get(token, "volume")),
     market_cap |-> SoftFloat(Get(token, "market_cap")),
     price_change |-> SoftFloat(Get(token, "price_change_percent"))]

RECURSIVE SoftRows(_)
\* one observation per listed token, from timeframe i on
SoftRows(i) ==
    IF i > Len(Timeframes) THEN <<>>
    ELSE (IF task[i].pc = "returned"
          THEN LET toks == TokensOf(task[i].result).toks
               IN [k \in DOMAIN toks |-> SoftRow(Timeframes[i], toks[k])]
          ELSE <<>>)
         \o SoftRows(i + 1)

\* the timeframes in which a token of the address is listed
ListedIn(address) ==
    {i \in DOMAIN task : /\ task[i].pc = "returned"
                         /\ \E k \in DOMAIN TokensOf(task[i].result).toks :
                               Get(TokensOf(task[i].result).toks[k], "address") = address}

C21_InvalidKeptAsZero ==
    Joined =>
        /\ agg.pc = "returned"
        /\ agg.data = SoftRows(1)
        /\ \A g \in Range(agg.out) :
              g.consistency_count = Cardinality(ListedIn(g.address))

\* a token listed with a field that is no number
HasInvalid(token) ==
    \E f \in {"price", "volume", "market_cap", "price_change_percent"} :
        Get(token, f).t = "str"

RECURSIVE ValidSoftRows(_)
\* the observations of the tokens without an invalid field, from timeframe i on
ValidSoftRows(i) ==
    IF i > Len(Timeframes) THEN <<>>
    ELSE (IF task[i].pc = "returned"
          THEN LET toks == SelectSeq(TokensOf(task[i].result).toks,
                                     LAMBDA t : ~HasInvalid(t))
               IN [k \in DOMAIN toks |-> SoftRow(Timeframes[i], toks[k])]
          ELSE <<>>)
         \o ValidSoftRows(i + 1)

\* what the code does: an absent field is taken as 0, a token with an invalid
\* field adds no observation
C21_AbsentKeptInvalidDropped ==
    Joined => agg.pc = "returned" /\ agg.data = ValidSoftRows(1)

\* address 1 is listed in a timeframe with volume "n/a" and has no observation
C21_Dropped ==
    /\ Joined
    /\ \E i \in ListedIn(Str(1)) : HasInvalid(task[i].result.tokens[1])
    /\ \A k \in DOMAIN agg.data : agg.data[k].address # Str(1)

(***************************************************************************)
(* app/services/ai_assessment_service.py and app/models/ai.py              *)
(*                                                                         *)
(* A provider's text is a sequence of pieces: the fence ```json, the fence *)
(* ```, whitespace, prose (text that is no JSON and holds no fence) and a  *)
(* JSON object.  A JSON object is a record of its fields; a field is a     *)
(* JSON string, a JSON integer or missing.                                 *)
(***************************************************************************)
JStr(s) == [t |-> "jstr", v |-> s]
JInt(n) == [t |-> "jint", v |-> n]
Missing == [t |-> "missing", v |-> 0]

FenceJson == [k |-> "fencejson", d |-> <<>>]
Fence == [k |-> "fence", d |-> <<>>]
Ws == [k |-> "ws", d |-> <<>>]
Prose == [k |-> "prose", d |-> <<>>]
Doc(verdict, risk_level, score, meme) ==
    [k |-> "doc",
     d |-> [verdict |-> verdict, summary |-> JStr("s"), explanation |-> JStr("e"),
            risk |-> [risk_level |-> risk_level, score |-> score],
            meme_potential_score |-> meme]]

NoVerdict == <<>>

\* models/ai.py lines 37-41: RiskAssessment; risk_level: str, score: int, both required
RiskAssessment(risk) == risk.risk_level.t = "jstr" /\ risk.score.t = "jint"

\* lines 37-41 with the documented domains enforced
RiskAssessmentStrict(risk) ==
    /\ risk.risk_level.t = "jstr" /\ risk.risk_level.v \in {"LOW", "MEDIUM", "HIGH", "EXTREME"}
    /\ risk.score.t = "jint" /\ risk.score.v \in 0..100

\* models/ai.py lines 43-49: AiAssessmentResponse; verdict, summary, explanation:
\* str, meme_potential_score: int, all required
AiAssessmentResponse(d) ==
    /\ d.verdict.t = "jstr"
    /\ d.summary.t = "jstr"
    /\ d.explanation.t = "jstr"
    /\ RiskAssessment(d.risk)
    /\ d.meme_potential_score.t = "jint"

\* AiAssessmentResponse.model_validate_json(content): the text must be one JSON
\* object, whitespace around it allowed, and the object must validate
model_validate_json(content) ==
    LET body == SelectSeq(content, LAMBDA piece : piece.k # "ws")
    IN IF Len(body) = 1 /\ body[1].k = "doc" /\ AiAssessmentResponse(body[1].d)
       THEN [ok |-> TRUE, value |-> body[1].d]
       ELSE [ok |-> FALSE, value |-> NoVerdict]

\* the first index from i on whose piece is of a kind in kinds, Len + 1 if none
RECURSIVE IndexOf(_, _, _)
IndexOf(content, kinds, i) ==
    IF i > Len(content) THEN Len(content) + 1
    ELSE IF content[i].k \in kinds THEN i
    ELSE IndexOf(content, kinds, i + 1)

\* str.strip()
RECURSIVE Strip(_)
Strip(content) ==
    IF content = <<>> THEN <<>>
    ELSE IF Head(content).k = "ws" THEN Strip(Tail(content))
    ELSE IF content[Len(content)].k = "ws" THEN Strip(SubSeq(content, 1, Len(content) - 1))
    ELSE content

\* the text handed on as it came
KeepFence(content) == content

\* lines 102-105: content.split("```json")[1].split("```")[0].strip(), or
\* content.split("```")[1].split("```")[0].strip(); ```json holds ``` too
StripFence(content) ==
    LET kinds == IF \E i \in DOMAIN content : content[i].k = "fencejson"
                 THEN {"fencejson"} ELSE {"fence"}
        first == IndexOf(content, kinds, 1)
        last == IndexOf(content, {"fence", "fencejson"}, first + 1)
    IN IF first > Len(content) THEN content
       ELSE Strip(SubSeq(content, first + 1, last - 1))

\* lines 87-88
call_openai(content) == model_validate_json(content)

\* lines 100-107
call_anthropic(content) == model_validate_json(StripFence(content))

\* a fallback verdict in place of the error
Fallback(a, event) ==
    [a EXCEPT !.pc = "returned", !.event = event,
              !.out = Doc(JStr("NEUTRAL"), JStr("HIGH"), JInt(0), JInt(0)).d]

\* lines 33-35: except Exception: log and raise
LogAndRaise(a, event) == [a EXCEPT !.pc = "raised", !.event = event]

(***************************************************************************)
(* SpecAssess: one assess_token call with each provider setting, the       *)
(* provider raising or answering any text of at most MaxText pieces        *)
(***************************************************************************)
MaxText == 3

Providers == {"openai", "anthropic", "gemini"}

Pieces ==
    { FenceJson, Fence, Ws, Prose,
      Doc(JStr("BULLISH"), JStr("LOW"), JInt(50), JInt(50)),
      Doc(JStr("MOON"), JStr("LOW"), JInt(50), JInt(50)),
      Doc(JStr("BEARISH"), JStr("SAFE"), JInt(50), JInt(50)),
      Doc(JStr("NEUTRAL"), JStr("HIGH"), JInt(150), JInt(50)),
      Doc(JStr("NEUTRAL"), JStr("EXTREME"), JInt(0), JInt(0 - 5)),
      Doc(Missing, JStr("MEDIUM"), JInt(100), JInt(100)),
      Doc(JStr("BULLISH"), JStr("MEDIUM"), JStr("high"), JInt(50)) }

Texts == UNION {[1..n -> Pieces] : n \in 0..MaxText}

\* lines 24-32: the prompt is built and the configured provider is chosen
AssessDispatch ==
    /\ ai.pc = "start"
    /\ ai' = IF ai.provider \in {"openai", "anthropic"}
             THEN [ai EXCEPT !.pc = "calling", !.calls = @ + 1]
             ELSE LogAndRaise(ai, "unsupported")
    /\ UNCHANGED <<now, cache, task, upstream, lastStore, agg, lock, thr, hist, deep, sc, answers, sig>>

\* lines 78-88, 91-107: the provider answers a text, which is validated
ProviderAnswers ==
    /\ ai.pc = "calling"
    /\ \E content \in Texts :
          LET r == IF ai.provider = "openai" THEN call_openai(content)
                   ELSE call_anthropic(content)
              a == [ai EXCEPT !.text = content]
          IN ai' = IF r.ok THEN [a EXCEPT !.pc = "returned", !.event = "answered",
                                          !.out = r.value]
                   ELSE LogAndRaise(a, "answered")
    /\ UNCHANGED <<now, cache, task, upstream, lastStore, agg, lock, thr, hist, deep, sc, answers, sig>>

\* lines 78, 91: the provider call raises
ProviderRaises ==
    /\ ai.pc = "calling"
    /\ ai' = LogAndRaise(ai, "provider_raised")
    /\ UNCHANGED <<now, cache, task, upstream, lastStore, agg, lock, thr, hist, deep, sc, answers, sig>>

InitAssess ==
    /\ now = 0
    /\ cache = EmptyCache
    /\ task = <<>>
    /\ upstream = [k \in AllKeys |-> <<>>]
    /\ lastStore = [k \in AllKeys |-> NoStore]
    /\ agg = NoAgg
    /\ lock = 0
    /\ thr = <<>>
    /\ hist = NoHist
    /\ deep = NoDeep
    /\ sc = NoScore
    /\ answers = {}
    /\ sig = NoSig
    /\ \E p \in Providers :
          ai = [pc |-> "start", provider |-> p, calls |-> 0, text |-> <<>>,
                event |-> "none", out |-> NoVerdict]

NextAssess ==
    \/ AssessDispatch
    \/ ProviderAnswers
    \/ ProviderRaises

SpecAssess == InitAssess /\ [][NextAssess]_vars

AssessEnded == ai.pc \in {"returned", "raised"}

(***************************************************************************)
(* Claim C22: every AiAssessmentResponse returned by assess_token has      *)
(* verdict in {BULLISH, BEARISH, NEUTRAL}, risk.risk_level in {LOW,        *)
(* MEDIUM, HIGH, EXTREME} and risk.score and meme_potential_score within   *)
(* 0..100; a text violating any of these is rejected with an error.        *)
(***************************************************************************)
C22_FixedSchema ==
    ai.pc = "returned" =>
        /\ ai.out.verdict.v \in {"BULLISH", "BEARISH", "NEUTRAL"}
        /\ RiskAssessmentStrict(ai.out.risk)
        /\ ai.out.meme_potential_score.t = "jint"
        /\ ai.out.meme_potential_score.v \in 0..100

\* what the models do enforce: the fields are present and of their types
C22_TypesOnly == ai.pc = "returned" => AiAssessmentResponse(ai.out)

\* a verdict outside the three values is returned
C22_Returned ==
    /\ ai.pc = "returned"
    /\ ai.out.verdict = JStr("MOON")

(***************************************************************************)
(* Claim C23: assess_token is all-or-nothing and never retried: if the     *)
(* provider call raises, the provider is unsupported or the text fails     *)
(* validation, the error propagates and no verdict is returned; the        *)
(* provider is invoked at most once per call.                              *)
(***************************************************************************)
\* the text, as the provider's path hands it to the validation, is one object
\* with every required field of its type
TextValidates ==
    LET content == IF ai.provider = "anthropic" THEN StripFence(ai.text) ELSE ai.text
        body == SelectSeq(content, LAMBDA piece : piece.k = "doc")
    IN /\ \A i \in DOMAIN content : content[i].k \in {"doc", "ws"}
       /\ Len(body) = 1
       /\ AiAssessmentResponse(body[1].d)

C23_AllOrNothing ==
    /\ ai.calls <= 1
    /\ ai.pc = "raised" => ai.out = NoVerdict
    /\ ai.pc = "returned" => ai.calls = 1 /\ ai.event = "answered" /\ TextValidates
    /\ AssessEnded /\ ai.provider \notin {"openai", "anthropic"} =>
          ai.pc = "raised" /\ ai.calls = 0
    /\ AssessEnded /\ ai.event = "provider_raised" => ai.pc = "raised"
    /\ AssessEnded /\ ai.event = "answered" /\ ~TextValidates => ai.pc = "raised"

\* the provider answered once, the text failed validation and the call raised
C23_Witness ==
    /\ ai.pc = "raised"
    /\ ai.event = "answered"
    /\ ai.calls = 1
    /\ ai.text = <<Prose>>
    /\ ai.out = NoVerdict

(***************************************************************************)
(* Claim C27: for the same raw provider text, text wrapped in a ``` or     *)
(* ```json fence included, the OpenAI path and the Anthropic path both     *)
(* strip the fence and then both return the same verdict or both fail.     *)
(***************************************************************************)
OtherPath(content) ==
    IF ai.provider = "openai" THEN call_anthropic(content) ELSE call_openai(content)

C27_Interchangeable ==
    AssessEnded /\ ai.event = "answered" =>
        /\ (ai.pc = "returned") = OtherPath(ai.text).ok
        /\ ai.out = OtherPath(ai.text).value

\* on a text without a fence the two paths agree
C27_UnfencedAgree ==
    /\ AssessEnded
    /\ ai.event = "answered"
    /\ \A i \in DOMAIN ai.text : ai.text[i].k \notin {"fence", "fencejson"}
    => /\ (ai.pc = "returned") = OtherPath(ai.text).ok
       /\ ai.out = OtherPath(ai.text).value

\* the OpenAI path fails on a fenced object the Anthropic path accepts
C27_FencedDiffers ==
    /\ ai.pc = "raised"
    /\ ai.provider = "openai"
    /\ ai.text = <<FenceJson, Doc(JStr("BULLISH"), JStr("LOW"), JInt(50), JInt(50)), Fence>>
    /\ call_anthropic(ai.text).ok

(***************************************************************************)
(* Claim C24: deep_analyze_token consults the 1h trending data first; if   *)
(* an entry with the requested address is found there it returns the       *)
(* record built from that entry, with source = trending_cache and no       *)
(* errors, and issues none of the three live lookups; the live lookups are *)
(* issued only when the address is not found in that list.                 *)
(***************************************************************************)
\* the entries of the 1h answer that carry the requested address
ListedEntries ==
    IF task[1].pc = "returned" /\ task[1].result.shape = "dict"
    THEN LET toks == FirstNonEmpty(task[1].result, <<"tokens", "rank">>)
         IN {i \in DOMAIN toks : IsMapping(toks[i]) /\ Get(toks[i], "address") = deep.address}
    ELSE {}

\* the first of them
FirstListed ==
    LET toks == FirstNonEmpty(task[1].result, <<"tokens", "rank">>)
    IN toks[CHOOSE i \in ListedEntries : \A j \in ListedEntries : i <= j]

LiveIssued == deep.pc = "gathering" \/ \E l \in Lookups : deep.look[l] # Pending

C24_TrendingFirst ==
    /\ deep.pc # "trending" => task[1].pc \in {"returned", "raised"}
    /\ LiveIssued => task[1].pc = "returned" /\ ListedEntries = {}
    /\ deep.pc # "trending" /\ ListedEntries # {} =>
          /\ deep.pc = "returned"
          /\ deep.path = "trending"
          /\ \A l \in Lookups : deep.look[l] = Pending
          /\ deep.response.source = "trending_cache"
          /\ deep.response.errors = <<>>
          /\ deep.response.address = deep.address
          /\ deep.response.market_data.liquidity = Get(FirstListed, "liquidity")
          /\ deep.response.market_data.created_timestamp = Get(FirstListed, "open_timestamp")

\* the address is the second entry of the 1h list: the record comes from it and
\* no lookup was issued
C24_Witness ==
    /\ deep.pc = "returned"
    /\ ListedEntries = {2}
    /\ deep.response.source = "trending_cache"
    /\ \A l \in Lookups : deep.look[l] = Pending
    /\ Len(upstream[CacheKey("1h", "sol")]) = 1

(***************************************************************************)
(* Claim C25: the whale-concentration bucket is counted toward max_score   *)
(* iff the concentration value is a positive number or a non-empty         *)
(* top_holders list exists; counted with a null value the value is taken   *)
(* as 100 and earns 0 of 20; otherwise it earns 20 below 30, 10 below 50,  *)
(* 5 below 70, else 0; not counted it adds 0 to score and to max_score.    *)
(***************************************************************************)
Scored == sc.pc = "done" /\ sc.result.ok

\* the points and the maximum of the breakdown lines, summed
PointsSum == SumSeq([i \in 1..6 |-> sc.result.breakdown[i].pts])
MaxSum == SumSeq([i \in 1..6 |-> sc.result.breakdown[i].of])

WhaleLine == sc.result.breakdown[5]

WhaleCounted ==
    \/ /\ "whale_concentration_top10" \in DOMAIN sc.holders
       /\ sc.holders.whale_concentration_top10.v > 0
    \/ /\ "top_holders" \in DOMAIN sc.holders
       /\ sc.holders.top_holders.v > 0

C25_WhaleBucket ==
    Scored =>
        /\ sc.result.score = Normalize(PointsSum, MaxSum)
        /\ WhaleCounted =>
              /\ ~WhaleLine.excluded
              /\ WhaleLine.of = 20
              /\ IF "whale_concentration_top10" \notin DOMAIN sc.holders
                 THEN WhaleLine.arg = Num(100) /\ WhaleLine.pts = 0
                 ELSE LET v == sc.holders.whale_concentration_top10.v
                      IN WhaleLine.pts = IF v < 30 THEN 20 ELSE IF v < 50 THEN 10
                                         ELSE IF v < 70 THEN 5 ELSE 0
        /\ ~WhaleCounted =>
              WhaleLine.excluded /\ WhaleLine.pts = 0 /\ WhaleLine.of = 0

\* a list of three holders without a value: counted, 0 of 20
C25_Witness ==
    /\ Scored
    /\ sc.holders = [top_holders |-> List(3)]
    /\ WhaleLine = Line("Whale Conc", Num(100), 0, 20)
    /\ MaxSum = 115

\* a value of 0 with a list: counted and the full 20 points
C25_WitnessZero ==
    /\ Scored
    /\ sc.holders = [whale_concentration_top10 |-> Num(0), top_holders |-> List(3)]
    /\ WhaleLine.pts = 20

(***************************************************************************)
(* Claim C26: the security bucket earns 10 points iff is_honeypot is       *)
(* explicitly false, plus 10 points iff is_mintable is explicitly false or *)
(* the renounce-mint flag is truthy, never 20 for the mint condition; its  *)
(* points are 0, 10 or 20 and its 20 points always count in max_score.     *)
(***************************************************************************)
SecurityLine == sc.result.breakdown[4]

HoneypotPoints == IF Get(sc.security, "is_honeypot") = Bool(FALSE) THEN 10 ELSE 0

SecurityBucket(mint_points) ==
    Scored =>
        /\ sc.result.score = Normalize(PointsSum, MaxSum)
        /\ SecurityLine.pts = HoneypotPoints + mint_points
        /\ SecurityLine.pts \in {0, 10, 20}
        /\ SecurityLine.of = 20
        /\ MaxSum \in {95, 115}

C26_RenouncedTruthy ==
    SecurityBucket(IF \/ Get(sc.security, "is_mintable") = Bool(FALSE)
                      \/ Truthy(Get(sc.security, "renounced_mint"))
                   THEN 10 ELSE 0)

\* Amended: the renounce-mint flag counts when it equals 1 (the number 1 or true)
C26_RenouncedIsOne ==
    SecurityBucket(IF \/ Get(sc.security, "is_mintable") = Bool(FALSE)
                      \/ Get(sc.security, "renounced_mint") \in {Num(1), Bool(TRUE)}
                   THEN 10 ELSE 0)

\* both mint conditions hold and the bucket earns 20, not 30
C26_Witness ==
    /\ Scored
    /\ sc.security = [is_honeypot |-> Bool(FALSE), is_mintable |-> Bool(FALSE),
                      renounced_mint |-> Num(1)]
    /\ SecurityLine.pts = 20

(***************************************************************************)
(* Claim C28: get_trending_data_with_cache stores whatever the fetch       *)
(* returns, an error-marked mapping included: after a fetch for a key      *)
(* returned {"error": ...}, every request for that key within the TTL      *)
(* receives that same error marker without a new upstream call; when the   *)
(* fetch raises, the cache is left unchanged and the next request fetches  *)
(* again.                                                                  *)
(***************************************************************************)
\* the latest completed fetch for the key stored an error marker that has not expired
ErrorStored(k) ==
    /\ lastStore[k].by # 0
    /\ task[lastStore[k].by].result = ErrorMarker
    /\ now < lastStore[k].at + ttl

C28_ErrorMarkerCached ==
    /\ \A k \in AllKeys : ErrorStored(k) =>
          k \in DOMAIN cache.data /\ cache.data[k] = ErrorMarker
    /\ \A t \in DOMAIN task :
          (/\ task[t].pc # "idle"
           /\ task[t].seen.by # 0
           /\ task[task[t].seen.by].result = ErrorMarker
           /\ task[t].began < task[t].seen.at + ttl)
          => /\ ~task[t].called
             /\ task[t].pc = "returned"
             /\ task[t].result = ErrorMarker
    \* fetches that raised stored nothing, and a request that finds nothing
    \* stored calls upstream
    /\ \A k \in AllKeys : lastStore[k] = NoStore => k \notin DOMAIN cache.data
    /\ \A t \in DOMAIN task :
          task[t].pc # "idle" /\ task[t].seen.by = 0 => task[t].called

\* a request answered with the error marker another request's fetch stored
C28_Witness ==
    \E t \in DOMAIN task :
        /\ task[t].pc = "returned"
        /\ ~task[t].called
        /\ task[t].result = ErrorMarker
        /\ task[t].seen.by \notin {0, t}
        /\ Len(upstream[TaskKey(t)]) = 1

\* a fetch raised, nothing is stored, and a later request for the key called upstream
C28_WitnessRaise ==
    \E a, b \in DOMAIN task :
        /\ TaskKey(a) = TaskKey(b)
        /\ task[a].pc = "raised"
        /\ task[b].pc = "awaiting"
        /\ task[b].began > task[a].began
        /\ TaskKey(a) \notin DOMAIN cache.data
        /\ Len(upstream[TaskKey(a)]) = 2

(***************************************************************************)
(* Claim C29: on the live path whale_concentration_top10 has the first ten *)
(* buyers as numerator and as denominator: it is 100 when any of them has  *)
(* a positive amount and 0 otherwise; the whale bucket of a live record    *)
(* earns 0 of 20 when a listed buyer has a positive amount, 20 of 20 when  *)
(* the list is non-empty with all amounts zero, and is excluded only when  *)
(* the list is empty or the lookup failed.                                 *)
(***************************************************************************)
LiveReturned == deep.pc = "returned" /\ deep.path = "live"

\* the amounts of the first ten listed buyers
ListedAmounts ==
    LET buyers == deep.look["top_buyers"].buyers
    IN {buyers[i].v : i \in {j \in DOMAIN buyers : j <= 10}}

LiveWhaleLine == deep.response.safety.breakdown[5]

C29_LiveWhaleDegenerate ==
    LiveReturned =>
        IF Succeeded(deep.look["top_buyers"])
        THEN /\ deep.response.holders.whale_concentration_top10 =
                   Num(IF \E a \in ListedAmounts : a > 0 THEN 100 ELSE 0)
             /\ (\E a \in ListedAmounts : a > 0) =>
                   LiveWhaleLine = Line("Whale Conc", Num(100), 0, 20)
             /\ (ListedAmounts # {} /\ \A a \in ListedAmounts : a = 0) =>
                   LiveWhaleLine = Line("Whale Conc", Num(0), 20, 20)
             /\ ListedAmounts = {} => LiveWhaleLine = ExcludedLine
        ELSE /\ deep.response.holders = EmptyDict
             /\ LiveWhaleLine = ExcludedLine

\* eleven buyers, the first and the eleventh holding the same: still 100
C29_Witness ==
    /\ LiveReturned
    /\ Len(deep.look["top_buyers"].buyers) = 11
    /\ deep.look["top_buyers"].buyers[11] = Num(5)
    /\ deep.response.holders.whale_concentration_top10 = Num(100)
    /\ LiveWhaleLine.pts = 0

\* two buyers holding nothing: the full 20 points
C29_WitnessZero ==
    /\ LiveReturned
    /\ deep.look["top_buyers"].buyers = <<Num(0), Num(0)>>
    /\ LiveWhaleLine.pts = 20

(***************************************************************************)
(* Claim C30: a record built from the trending list has is_honeypot and    *)
(* is_mintable null, so its security bucket earns at most 10 of 20 and the *)
(* score of every trending_cache record is strictly below 100: at most     *)
(* 105/115 with the whale bucket counted, 85/95 with it excluded.          *)
(***************************************************************************)
TrendingReturned == deep.pc = "returned" /\ deep.path = "trending"

C30_TrendingBelow100 ==
    TrendingReturned =>
        /\ deep.response.security.is_honeypot = None
        /\ deep.response.security.is_mintable = None
        /\ deep.response.safety.breakdown[4].pts <= 10
        /\ deep.response.safety.breakdown[4].of = 20
        /\ deep.response.safety.score < 100 * 100
        /\ deep.response.safety.score <=
              IF deep.response.safety.breakdown[5].excluded
              THEN Normalize(85, 95) ELSE Normalize(105, 115)

\* an entry with everything to its credit, flags included: 105 of 115
C30_Witness ==
    /\ TrendingReturned
    /\ deep.response.safety.score = Normalize(105, 115)
    /\ deep.response.safety.breakdown[4].pts = 10
    /\ ~deep.response.safety.breakdown[5].excluded

\* the same without a holder rate: 85 of 95
C30_WitnessExcluded ==
    /\ TrendingReturned
    /\ deep.response.safety.score = Normalize(85, 95)
    /\ deep.response.safety.breakdown[5].excluded

====
